---- MODULE Spec2Model ----
(***************************************************************************)
(* Model of media-bridge: the AudioMixer (default-volume / reset-on-stop   *)
(* edge policy, slew engine, external-volume handling) and the TVSource    *)
(* silence / auto-mute state machine.                                      *)
(*                                                                         *)
(* Three specifications share the variables: Spec (the mixer and its three  *)
(* sources), SpecRamp (one ramp left alone) and SpecTV (the TV source with  *)
(* its pipeline, level meter and silence detection, under the mixer's edge  *)
(* policy).                                                                *)
(*                                                                         *)
(* Volumes are integer percents.  The ramp's float `current` and its step  *)
(* `slew_rate * 0.05` are kept exactly, in twentieths of a percent (FP).   *)
(***************************************************************************)
EXTENDS Integers, Sequences, FiniteSets, TLC

\* ------------------------------------------------------------------ bounds
\* ramp worker threads that may be alive at once for one source
MaxWorkers == 2
\* largest target of the ramps of SpecRamp
MaxRampTarget == 60
\* SpecTV: half seconds that pass in one run
MaxTime == 1
\* SpecTV: commands in one run
MaxTvEvents == 2
\* commands, notifications and mixer stops in one run (a start is not counted:
\* there is one per stop, plus the first)
MaxEvents == 3

\* ------------------------------------------------------- program constants
\* 1 / step_interval (step_interval = 0.05 s): fixed-point scale of `current`
FP == 20
MinVolume == 0
MaxVolume == 100
DefaultSlewRate == 25
DefaultVolume == 15
InitialVolume == 100

\* TVSource times are counted in half seconds
SetDebounce == 1
RestartCooldown == 4
DefaultSilenceDuration == 6
DefaultSilenceThreshold == -50
FloorLevel == -100
\* time.time() when the TV source is constructed, in half seconds; the time
\* stamps of the source start at 0.0, which is long ago
TvEpoch == 100

\* MediaBridge times are counted in tenths of a second
VolumeCmdCooldown == 2
DefaultMasterVolume == 100
\* time.time() when the bridge is constructed, in tenths of a second
BridgeEpoch == 100

Sources == {"spotify", "airplay", "tv"}
UnknownSource == "bogus"
PlaybackStates == {"idle", "playing", "paused"}

\* ------------------------------------------------------------ input sets
\* volumes a command may carry (below, inside and above the legal range)
VolumeInputs == {-5, 52, 120}
\* volumes a source may read from its output stream or remote protocol
PolledVolumes == {40}
\* slew rates the configuration and the set_slew_rate command may carry:
\* 0 (instant) and FastSlewRate (37.5 percent per tick, so a ramp takes at most
\* three ticks and passes through half percents)
FastSlewRate == 30 * DefaultSlewRate
SlewRates == {0, FastSlewRate}
\* volumes the set_default_volume command may carry
DefaultVolumeInputs == {18}
\* SpecRamp: the volume a ramp starts from, its target and the slew rate
RampStarts == {10, DefaultVolume}
RampTargets == 0 .. MaxRampTarget
RampRates == {DefaultSlewRate, FastSlewRate}

\* volumes the set_master_volume command may carry
MasterVolumeInputs == {-1, 52, 101}
\* SpecBridge: the volume a source_<name>_set_volume command carries
CommandVolumes == {52}

\* SpecTV: levels the meter may read (silence and a sound) and silence
\* durations set before the run
LevelInputs == {FloorLevel, -40}
SilenceDurations == {1, 2}

VARIABLES
    running,        \* AudioMixer._running
    slew_rate,      \* AudioMixer._slew_rate
    reset_on_stop,  \* AudioMixer._reset_on_stop
    default_volumes,\* AudioMixer._default_volumes
    was_active,     \* AudioMixer._was_active
    slew_state,     \* AudioMixer._slew_state  (source -> job or NoJob)
    workers,        \* the slew threads: source -> slot -> thread locals
    src_volume,     \* SourceState.volume of each source
    src_state,      \* SourceState.state of each source
    src_running,    \* AudioSource._running of each source
    pub,            \* on_state_change calls made by the last step, in order
    calls,          \* source.set_volume calls made by the last step, in order
    last,           \* the last step: operation, source, argument, result
    events,         \* number of environment events so far
    ramp,           \* SpecRamp: the record of the ramp (NoRamp elsewhere)
    tv,             \* the fields of TVSource
    sink,           \* the gst-launch sink-input in PulseAudio
    tv_state,       \* SourceState.muted, level and level_db of the TV source
    tv_now,         \* time.time(), in half seconds
    writes,         \* mute values written to the sink-input by the last step
    attached,       \* the sources that have a client and an output stream in
                    \* this run (one); the others stay silent: nothing polls
                    \* a change, commands them or finds their sink-input
    master_volume,  \* AudioMixer._master_volume
    src_muted,      \* SourceState.muted of the Spotify and AirPlay sources
    clock,          \* SpecBridge: time.time(), in tenths of a second
    last_volume_cmd,\* MediaBridge._last_volume_cmd (names it has no entry for
                    \* map to 0)
    arrivals,       \* SpecBridge: per name, when its last set_volume command
                    \* arrived, whether that one was passed to the mixer, and
                    \* when the last one passed to the mixer arrived
    loop,           \* SpecPipeline, SpecDebounce: the position of the TV
                    \* control loop thread (TVSource._run), the arguments
                    \* of its pending _update_state call, and the times of
                    \* the last two pipeline starts
    halt,           \* SpecStop: the position of a stop() call of the mixer
                    \* and what it has done so far; SpecTvStop: the position
                    \* of a stop() call of the TV source
    slew_lock,      \* SpecLock: the thread that holds AudioMixer._slew_lock
    state_lock,     \* SpecOrder: the thread that holds AudioSource._lock of
                    \* the attached source, with the _update_state call it
                    \* is in
    meters,         \* SpecMeter: the number of decode pipelines started so
                    \* far and the tv-level-meter threads, each with its
                    \* position and the pipeline whose stdout it reads
    sp              \* SpecSpotify: the MPRIS Volume property of spotifyd, the
                    \* sink-input volume, SpotifySource._last_mpris_volume and
                    \* the position and locals of a set_volume call in progress

mixer_vars == <<running, slew_rate, reset_on_stop, default_volumes, was_active,
                slew_state, workers, src_volume, src_state, src_running,
                pub, calls, last, events, ramp, attached>>

tv_vars == <<tv, sink, tv_state, tv_now, writes>>

\* the variables of the command router (SpecBridge)
bridge_vars == <<master_volume, src_muted, clock, last_volume_cmd, arrivals>>
\* the variables of the specifications that follow single threads
thread_vars == <<sp, loop, halt, slew_lock, meters, state_lock>>
ext_vars == <<bridge_vars, thread_vars>>

\* --------------------------------------------------------------- helpers
\* a clamp that forgets the lower end of the range
ClampAbove(v) == IF v > MaxVolume THEN MaxVolume ELSE v

Clamp(v) == IF v < MinVolume THEN MinVolume ELSE IF v > MaxVolume THEN MaxVolume ELSE v

Min(a, b) == IF a < b THEN a ELSE b
Max(a, b) == IF a > b THEN a ELSE b
Abs(a) == IF a < 0 THEN -a ELSE a

\* int(round(x)) for x = k / FP >= 0: Python rounds halves to the even integer
RoundFP(k) ==
    LET q == k \div FP
        r == k % FP
    IN  IF 2 * r < FP THEN q
        ELSE IF 2 * r > FP THEN q + 1
        ELSE IF q % 2 = 0 THEN q ELSE q + 1

NoJob == [present |-> FALSE, active |-> FALSE, target |-> 0, current |-> 0]
\* a slew thread's locals
NoWorker == [pc |-> "none", new_vol |-> 0, target |-> 0, step |-> 0]
\* the record of a ramp: the volume it started from and the volumes applied
NoRamp == [from |-> 0, log |-> <<>>]
\* the last step: op, the source, the commanded volume, the value returned,
\* the playback state notified to the mixer ("" if none) and the edge it made
NoLast == [op |-> "init", src |-> "", arg |-> 0, ret |-> FALSE, note |-> "",
           edge |-> ""]

Event(s, key, value) == <<s, key, value>>

\* The part of the mixer and of one source that a callback chain on that source
\* reads and writes; the handlers below are functions from cell to cell.
Cell(s) == [vol |-> src_volume[s], state |-> src_state[s], was |-> was_active[s],
            job |-> slew_state[s], pub |-> <<>>, calls |-> <<>>, ret |-> FALSE]

\* ------------------------------------------------------------ AudioSource
\* a set_volume that reports success although the sink-input write failed and
\* nothing was stored
set_volume_reports_success(c, s, v, ok) ==
    LET volume == Clamp(v)
        c0 == [c EXCEPT !.calls = Append(@, <<s, v>>)]
    IN  IF s = "airplay" \/ ok
        THEN [(IF c0.vol # volume
               THEN [c0 EXCEPT !.vol = volume,
                               !.pub = Append(@, <<s, "volume", volume>>)]
               ELSE c0) EXCEPT !.ret = TRUE]
        ELSE [c0 EXCEPT !.ret = TRUE]

\* mixer.py 141-143: forward a notification to the outward callback
Forward(c, s, key, value) == [c EXCEPT !.pub = Append(@, Event(s, key, value))]

\* base.py 109-122 for the kwarg volume=v: store and notify only on a change;
\* the notification reaches _handle_source_state_change with key "volume",
\* which forwards it.
update_state_volume(c, s, v) ==
    IF c.vol # v THEN Forward([c EXCEPT !.vol = v], s, "volume", v) ELSE c

\* set_volume of the three sources; ok is the outcome of the sink-input write
\* (a sink-input is found and pactl exits 0).  AirPlay stores the volume and
\* returns True whatever the outcome; Spotify and TV store it only on success.
set_volume(c, s, v, ok) ==
    LET volume == Clamp(v)
        c0 == [c EXCEPT !.calls = Append(@, <<s, v>>)]
    IN  IF s = "airplay"
        THEN [update_state_volume(c0, s, volume) EXCEPT !.ret = TRUE]
        ELSE IF ok
             THEN [update_state_volume(c0, s, volume) EXCEPT !.ret = TRUE]
             ELSE [c0 EXCEPT !.ret = FALSE]

\* -------------------------------------------------------------- AudioMixer
\* mixer.py 332-336
stop_slew(job) == IF job.present THEN [job EXCEPT !.active = FALSE] ELSE job

\* a became-active branch that applies the built-in default, not the configured one
became_active_builtin_default(c, s, dflt, ok) ==
    Forward(set_volume(c, s, DefaultVolume, ok), s, "volume", DefaultVolume)

\* a became-inactive branch that leaves the ramp running
became_inactive_keeps_ramp(c, s, dflt, reset, ok) ==
    IF reset THEN Forward(set_volume(c, s, dflt, ok), s, "volume", dflt) ELSE c

\* mixer.py 110-122: set the default directly, then notify the volume
became_active(c, s, dflt, ok) ==
    Forward(set_volume(c, s, dflt, ok), s, "volume", dflt)

\* mixer.py 125-137
became_inactive(c, s, dflt, reset, ok) ==
    LET c1 == [c EXCEPT !.job = stop_slew(@)]
    IN  IF reset THEN Forward(set_volume(c1, s, dflt, ok), s, "volume", dflt)
        ELSE c1

\* a level-triggered handler: it acts on every notification, edge or not
handle_level_triggered(c, s, value, dflt, reset, ok) ==
    LET is_active == value = "playing"
        c1 == IF is_active THEN became_active(c, s, dflt, ok)
              ELSE became_inactive(c, s, dflt, reset, ok)
    IN  Forward([c1 EXCEPT !.was = is_active], s, "state", value)

\* a handler that counts a paused source as active
handle_paused_is_active(c, s, value, dflt, reset, ok) ==
    LET is_active == value \in {"playing", "paused"}
        c1 == IF is_active /\ ~c.was THEN became_active(c, s, dflt, ok)
              ELSE IF c.was /\ ~is_active THEN became_inactive(c, s, dflt, reset, ok)
              ELSE c
    IN  Forward([c1 EXCEPT !.was = is_active], s, "state", value)

\* mixer.py 103-143 for key = "state"
handle_source_state_change(c, s, value, dflt, reset, ok) ==
    LET is_active == value = "playing"
        c1 == IF is_active /\ ~c.was THEN became_active(c, s, dflt, ok)
              ELSE IF c.was /\ ~is_active THEN became_inactive(c, s, dflt, reset, ok)
              ELSE c
    IN  Forward([c1 EXCEPT !.was = is_active], s, "state", value)

\* a handler that writes the external volume back to the source
handle_external_volume_writes_back(c, s, volume) ==
    Forward(set_volume([c EXCEPT !.job = stop_slew(@)], s, volume, TRUE),
            s, "volume", volume)

\* mixer.py 145-162
handle_external_volume(c, s, volume) ==
    Forward([c EXCEPT !.job = stop_slew(@)], s, "volume", volume)

\* base.py 109-122 for the kwargs (state=st, volume=v) in that order;
\* v = NoVolume when the call passes no volume.
NoVolume == -1
update_state(c, s, st, v, dflt, reset, ok) ==
    LET c1 == IF c.state # st
              THEN handle_source_state_change([c EXCEPT !.state = st], s, st,
                                              dflt, reset, ok)
              ELSE c
    IN  IF v = NoVolume THEN c1 ELSE update_state_volume(c1, s, v)

\* write a cell back to the variables it was read from
Commit(s, c) ==
    /\ src_volume' = [src_volume EXCEPT ![s] = c.vol]
    /\ src_state' = [src_state EXCEPT ![s] = c.state]
    /\ was_active' = [was_active EXCEPT ![s] = c.was]
    /\ slew_state' = [slew_state EXCEPT ![s] = c.job]
    /\ pub' = c.pub
    /\ calls' = c.calls

Slots == 1 .. MaxWorkers
FreeSlots(s) == {w \in Slots : workers[s][w].pc = "none"}
Alive(s) == {w \in Slots : workers[s][w].pc # "none"}

\* mixer.py 274-282: the thread's locals on entry; step_size = rate * 0.05
new_worker(rate) == [pc |-> "loop", new_vol |-> 0, target |-> 0, step |-> rate]

\* mixer.py 257-262
new_job(target, current_vol) ==
    [present |-> TRUE, active |-> TRUE, target |-> target, current |-> current_vol * FP]

\* mixer.py 251-255: a table entry exists, so only its target changes
retarget(job, target) == [job EXCEPT !.target = target]

\* a step that is not clamped at the target
next_volume_unclamped(current, target, step) ==
    IF current < target * FP THEN current + step ELSE current - step

\* mixer.py 296-300: the next value of `current`, clamped at the target
next_volume(current, target, step) ==
    IF current < target * FP THEN Min(target * FP, current + step)
    ELSE Max(target * FP, current - step)

\* mixer.py 317: abs(new_vol - target) < 0.5
reached(new_vol, target) == 2 * Abs(new_vol - target * FP) < FP

\* tv.py 45-92: the fields of a new TVSource whose silence duration is d
new_tv(d) ==
    [level_db |-> FloorLevel, last_sound |-> 0, user_muted |-> FALSE,
     threshold |-> DefaultSilenceThreshold, duration |-> d,
     auto_mute |-> TRUE, silence_muted |-> FALSE,
     power_on |-> FALSE, enabled |-> FALSE,
     proc |-> "none", type |-> "none", meter |-> FALSE,
     last_start |-> 0, vol_set |-> 0, mute_set |-> 0, id |-> "none"]

NoSink == [present |-> FALSE, muted |-> FALSE, volume |-> MaxVolume]

\* tv.py 45-92 and base.py 31-41
TVInit(d) ==
    /\ tv = new_tv(d)
    /\ sink = NoSink
    /\ tv_state = [muted |-> FALSE, level |-> 0, level_db |-> FloorLevel]
    /\ tv_now = TvEpoch
    /\ writes = <<>>

\* spotify.py 59-65: no MPRIS volume seen yet, no call in progress; the
\* property and the sink-input start at full volume
NoSpotify == [mpris |-> MaxVolume, origin |-> "init", pa |-> InitialVolume,
              last_mpris |-> -1, set_pc |-> "idle", set_vol |-> 0, set_ok |-> FALSE]

\* tv.py 126-139: the control loop is at the head of its while loop, and no
\* pipeline start has been made
NoLoop == [pc |-> "top", prev_start |-> 0, this_start |-> 0, cause |-> "",
           p |-> [note |-> "", update |-> FALSE, state |-> "idle",
                  volume |-> InitialVolume, kw |-> [level |-> 0]]]

\* mixer.py 181: no stop() call has been made
NoHalt == [pc |-> "idle", i |-> 1, cleared |-> FALSE, jobs |-> {},
           invoked |-> <<>>, raised |-> {}]

\* bounds: tv-level-meter threads that exist at one time
MaxMeters == 2
MeterSlots == 1 .. MaxMeters
\* tv.py 345-348: no such thread; a thread's position and the number of the
\* pipeline it reads from
NoMeter == [pc |-> "none", from |-> 0]
\* tv.py 61-62: no pipeline has been started
NoMeters == [gen |-> 0, threads |-> [m \in MeterSlots |-> NoMeter]]

\* mixer.py 74, base.py 86: a lock is created unlocked
NoHolder == <<>>

\* no set_volume command has arrived for the name
NoArrival == [at |-> 0, applied |-> FALSE, applied_at |-> 0]

\* main.py 52-54 and mixer.py 54, base.py 36
ExtInit ==
    /\ master_volume = Clamp(DefaultMasterVolume)
    /\ src_muted = [s \in Sources \ {"tv"} |-> FALSE]
    /\ clock = BridgeEpoch
    /\ last_volume_cmd = [n \in Sources \cup {UnknownSource} |-> 0]
    /\ arrivals = [n \in Sources \cup {UnknownSource} |-> NoArrival]
    /\ sp = NoSpotify
    /\ loop = NoLoop
    /\ halt = NoHalt
    /\ slew_lock = NoHolder
    /\ meters = NoMeters
    /\ state_lock = NoHolder

\* ------------------------------------------------------------------ Init
MixerInit ==
    /\ ExtInit
    /\ TVInit(DefaultSilenceDuration)
    /\ running = FALSE
    /\ slew_rate = FastSlewRate
    /\ reset_on_stop = TRUE
    /\ default_volumes = [s \in Sources |-> DefaultVolume]
    /\ was_active = [s \in Sources |-> FALSE]
    /\ slew_state = [s \in Sources |-> NoJob]
    /\ workers = [s \in Sources |-> [w \in Slots |-> NoWorker]]
    /\ src_volume = [s \in Sources |-> InitialVolume]
    /\ src_state = [s \in Sources |-> "idle"]
    /\ src_running = [s \in Sources |-> FALSE]
    /\ pub = <<>>
    /\ calls = <<>>
    /\ last = NoLast
    /\ events = 0
    /\ ramp = NoRamp
    /\ attached \in {{s} : s \in Sources}

Env == events < MaxEvents /\ events' = events + 1 /\ UNCHANGED attached

\* ------------------------------------------------------- mixer operations
\* mixer.py 216-235 with _start_slew 237-272
set_source_volume(name, v, use_slew, ok) ==
    /\ Env
    /\ UNCHANGED tv_vars
    /\ IF name \notin Sources
       THEN /\ last' = [NoLast EXCEPT !.op = "set_source_volume", !.src = name,
                                      !.arg = v, !.ret = FALSE]
            /\ pub' = <<>> /\ calls' = <<>>
            /\ UNCHANGED <<src_volume, src_state, was_active, slew_state, workers>>
       ELSE LET volume == Clamp(v) IN
            IF ~use_slew \/ slew_rate <= 0
            THEN LET c == set_volume(Cell(name), name, volume, ok) IN
                 /\ Commit(name, c)
                 /\ last' = [NoLast EXCEPT !.op = "set_source_volume", !.src = name,
                                           !.arg = v, !.ret = c.ret, !.note = "direct"]
                 /\ UNCHANGED workers
            ELSE /\ last' = [NoLast EXCEPT !.op = "set_source_volume", !.src = name,
                                           !.arg = v, !.ret = TRUE, !.note = "slew"]
                 /\ pub' = <<>> /\ calls' = <<>>
                 /\ UNCHANGED <<src_volume, src_state, was_active>>
                 /\ IF src_volume[name] = volume
                    THEN UNCHANGED <<slew_state, workers>>
                    ELSE IF slew_state[name].present
                    THEN /\ slew_state' = [slew_state EXCEPT
                                              ![name] = retarget(@, volume)]
                         /\ UNCHANGED workers
                    ELSE /\ FreeSlots(name) # {}
                         /\ slew_state' = [slew_state EXCEPT
                                ![name] = new_job(volume, src_volume[name])]
                         /\ LET w == CHOOSE x \in FreeSlots(name) :
                                        \A y \in FreeSlots(name) : x <= y
                            IN workers' = [workers EXCEPT
                                             ![name][w] = new_worker(slew_rate)]
    /\ UNCHANGED <<running, slew_rate, reset_on_stop, default_volumes, src_running>>

SetSourceVolume(name, v, use_slew, ok) ==
    set_source_volume(name, v, use_slew, ok) /\ UNCHANGED <<ramp, ext_vars>>

\* mixer.py 285-306: the locked section of a pass of worker me over the table
\* entry job of its source; the entry and the worker's locals after it
slew_pass(job, me) ==
    IF ~job.present \/ ~job.active
    THEN [job |-> job, me |-> NoWorker]
    ELSE IF job.current = job.target * FP
    THEN [job |-> NoJob, me |-> NoWorker]
    ELSE LET nv == next_volume(job.current, job.target, me.step) IN
         [job |-> [job EXCEPT !.current = nv],
          me |-> [me EXCEPT !.pc = "apply", !.new_vol = nv, !.target = job.target]]

\* mixer.py 284-306: one pass of the loop head and the locked section
SlewTick(s, w) ==
    /\ UNCHANGED <<ramp, tv_vars, ext_vars>>
    /\ workers[s][w].pc = "loop"
    /\ LET r == IF running THEN slew_pass(slew_state[s], workers[s][w])
                ELSE [job |-> slew_state[s], me |-> NoWorker]
       IN  /\ slew_state' = [slew_state EXCEPT ![s] = r.job]
           /\ workers' = [workers EXCEPT ![s][w] = r.me]
    /\ pub' = <<>> /\ calls' = <<>>
    /\ last' = [NoLast EXCEPT !.op = "slew_tick", !.src = s]
    /\ UNCHANGED <<running, slew_rate, reset_on_stop, default_volumes, was_active,
                   src_volume, src_state, src_running, events, attached>>

\* mixer.py 308-314: apply the volume outside the lock and notify it
slew_apply(s, w, ok) ==
    /\ UNCHANGED <<tv_vars, ext_vars>>
    /\ workers[s][w].pc = "apply"
    /\ LET int_vol == RoundFP(workers[s][w].new_vol)
           c == Forward(set_volume(Cell(s), s, int_vol, ok), s, "volume", int_vol)
       IN  /\ Commit(s, c)
           /\ last' = [NoLast EXCEPT !.op = "slew_apply", !.src = s, !.arg = int_vol,
                                     !.ret = c.ret]
    /\ workers' = [workers EXCEPT ![s][w].pc = "check"]
    /\ UNCHANGED <<running, slew_rate, reset_on_stop, default_volumes, src_running,
                   events, attached>>

SlewApply(s, w, ok) == slew_apply(s, w, ok) /\ UNCHANGED ramp

\* mixer.py 316-324: remove the entry when the target is reached, else sleep
SlewCheck(s, w) ==
    /\ UNCHANGED <<ramp, tv_vars, ext_vars>>
    /\ workers[s][w].pc = "check"
    /\ IF reached(workers[s][w].new_vol, workers[s][w].target)
       THEN /\ slew_state' = [slew_state EXCEPT ![s] = NoJob]
            /\ workers' = [workers EXCEPT ![s][w] = NoWorker]
       ELSE /\ workers' = [workers EXCEPT ![s][w].pc = "loop"]
            /\ UNCHANGED slew_state
    /\ pub' = <<>> /\ calls' = <<>>
    /\ last' = [NoLast EXCEPT !.op = "slew_check", !.src = s]
    /\ UNCHANGED <<running, slew_rate, reset_on_stop, default_volumes, was_active,
                   src_volume, src_state, src_running, events, attached>>

\* states and volumes the polling loop of source s may pass to _update_state:
\* spotify.py 243-249, airplay.py 284-306, tv.py 394-395 and 446-452
PollStates(s) == IF s = "spotify" THEN PlaybackStates
                 ELSE IF s = "airplay" THEN {"playing", "paused"}
                 ELSE {"playing", "idle"}
PollVolumes(s) == PolledVolumes \cup {src_volume[s]}

\* the end of a poll cycle: _update_state(state=st, volume=v, ...)
SourcePoll(s, st, v, ok) ==
    /\ UNCHANGED <<ramp, tv_vars, ext_vars>>
    /\ Env
    /\ src_running[s]
    /\ LET c == update_state(Cell(s), s, st, v, default_volumes[s], reset_on_stop, ok)
       IN  /\ Commit(s, c)
           /\ last' = [NoLast EXCEPT !.op = "poll", !.src = s,
                          !.note = IF src_state[s] # st THEN st ELSE "",
                          !.edge = IF src_state[s] = st THEN ""
                                   ELSE IF st = "playing" /\ ~was_active[s] THEN "active"
                                   ELSE IF st # "playing" /\ was_active[s] THEN "inactive"
                                   ELSE "none"]
    /\ UNCHANGED <<running, slew_rate, reset_on_stop, default_volumes, workers,
                   src_running>>

\* airplay.py 282-290, tv.py 392-396: no output stream, so the source reports
\* idle (and passes no volume) unless it is idle already
SourcePollGone(s, ok) ==
    /\ s \in {"airplay", "tv"}
    /\ src_state[s] # "idle"
    /\ SourcePoll(s, "idle", NoVolume, ok)

\* spotify.py 210-218, airplay.py 196-222: the remote changed the volume
ExternalVolume(s, v) ==
    /\ UNCHANGED <<ramp, tv_vars, ext_vars>>
    /\ Env
    /\ s \in {"spotify", "airplay"}
    /\ src_running[s]
    /\ Commit(s, handle_external_volume(Cell(s), s, v))
    /\ last' = [NoLast EXCEPT !.op = "external_volume", !.src = s, !.arg = v]
    /\ UNCHANGED <<running, slew_rate, reset_on_stop, default_volumes, workers,
                   src_running>>

\* mixer.py 468-470
get_master_volume == master_volume

\* mixer.py 472-498: the value stored, the notification and the result; ok is
\* the outcome of `pactl set-sink-volume @DEFAULT_SINK@`
set_master_volume(v, ok) ==
    [stored |-> Clamp(v),
     pub |-> IF ok THEN <<Event("master", "volume", Clamp(v))>> ELSE <<>>,
     ret |-> ok]

\* mixer.py 558-563 for one source
apply_default_volume(s, ok) == set_volume(Cell(s), s, default_volumes[s], ok)

\* mixer.py 164-179; oks holds the sources whose sink-input write succeeds
\* (and "master" if the write of the master volume to the default sink does),
\* dbus the outcome of SpotifySource._init_dbus (spotify.py 141-150)
Start(oks, dbus) ==
    /\ UNCHANGED <<ramp, tv_vars, ext_vars>>
    /\ ~running
    /\ UNCHANGED <<events, attached>>
    /\ running' = TRUE
    /\ LET c1 == apply_default_volume("spotify", "spotify" \in oks)
           c2 == apply_default_volume("airplay", "airplay" \in oks)
           c3 == apply_default_volume("tv", "tv" \in oks)
       IN  /\ src_volume' = [src_volume EXCEPT !["spotify"] = c1.vol,
                                !["airplay"] = c2.vol, !["tv"] = c3.vol]
           /\ pub' = c1.pub \o c2.pub \o c3.pub
                      \o set_master_volume(master_volume, "master" \in oks).pub
           /\ calls' = c1.calls \o c2.calls \o c3.calls
    /\ src_running' = [s \in Sources |-> IF s = "spotify" THEN dbus ELSE TRUE]
    /\ last' = [NoLast EXCEPT !.op = "start"]
    /\ UNCHANGED <<slew_rate, reset_on_stop, default_volumes, was_active, slew_state,
                   workers, src_state>>

\* mixer.py 181-196
Stop ==
    /\ UNCHANGED <<ramp, tv_vars, ext_vars>>
    /\ Env
    /\ running
    /\ running' = FALSE
    /\ slew_state' = [s \in Sources |-> NoJob]
    /\ src_running' = [s \in Sources |-> FALSE]
    /\ pub' = <<>> /\ calls' = <<>>
    /\ last' = [NoLast EXCEPT !.op = "stop"]
    /\ UNCHANGED <<slew_rate, reset_on_stop, default_volumes, was_active, workers,
                   src_volume, src_state>>

\* mixer.py 573-579
SetSlewRate(rate) ==
    /\ UNCHANGED <<ramp, tv_vars, ext_vars>>
    /\ Env
    /\ slew_rate' = Max(0, rate)
    /\ pub' = <<Event("master", "slew_rate", Max(0, rate))>> /\ calls' = <<>>
    /\ last' = [NoLast EXCEPT !.op = "set_slew_rate", !.ret = TRUE]
    /\ UNCHANGED <<running, reset_on_stop, default_volumes, was_active, slew_state,
                   workers, src_volume, src_state, src_running>>

\* mixer.py 550-556
SetResetOnStop(enabled) ==
    /\ UNCHANGED <<ramp, tv_vars, ext_vars>>
    /\ Env
    /\ reset_on_stop' = enabled
    /\ pub' = <<Event("master", "reset_on_stop", enabled)>> /\ calls' = <<>>
    /\ last' = [NoLast EXCEPT !.op = "set_reset_on_stop", !.ret = TRUE]
    /\ UNCHANGED <<running, slew_rate, default_volumes, was_active, slew_state,
                   workers, src_volume, src_state, src_running>>

\* mixer.py 525-544
SetDefaultVolume(name, v) ==
    /\ UNCHANGED <<ramp, tv_vars, ext_vars>>
    /\ Env
    /\ IF name \notin Sources /\ name # "all"
       THEN /\ UNCHANGED default_volumes
            /\ pub' = <<>>
            /\ last' = [NoLast EXCEPT !.op = "set_default_volume", !.src = name,
                                      !.arg = v, !.ret = FALSE]
       ELSE /\ default_volumes' = [s \in Sources |->
                   IF name = "all" \/ name = s THEN Clamp(v) ELSE default_volumes[s]]
            /\ pub' = <<Event(name, "default_volume", Clamp(v))>>
            /\ last' = [NoLast EXCEPT !.op = "set_default_volume", !.src = name,
                                      !.arg = v, !.ret = TRUE]
    /\ calls' = <<>>
    /\ UNCHANGED <<running, slew_rate, reset_on_stop, was_active, slew_state,
                   workers, src_volume, src_state, src_running>>

\* outcomes of SpotifySource._init_dbus: a failure is told apart only in the
\* runs where Spotify is the attached source
DBusOutcomes == {b \in BOOLEAN : b \/ "spotify" \in attached}

\* --------------------------------------------------------------- TVSource
\* tv.py 410: the metered level is at or below the threshold
is_silent(level_db, threshold) == level_db <= threshold

\* a silence that counts as sustained at once
silence_exceeded_at_once(now, last_sound, duration) == now - last_sound >= 0

\* tv.py 409 and 411: the last window above the threshold is at least
\* silence_duration old
silence_exceeded(now, last_sound, duration) == now - last_sound >= duration

\* tv.py 417: the poll restores the mute when sound is back
unmute_due(t) == t.auto_mute /\ t.silence_muted

\* an auto-mute that does not look at the user's mute
auto_mute_ignores_user(t) == t.auto_mute /\ ~t.silence_muted

\* tv.py 426: the poll mutes on sustained silence
auto_mute_due(t) == t.auto_mute /\ ~t.silence_muted /\ ~t.user_muted

\* an effective mute that leaves out the mute the controller set on silence
effective_mute_without_silence(observed, user_muted, silence_muted) ==
    observed \/ user_muted

\* tv.py 433: the mute reported outward
effective_mute(observed, user_muted, silence_muted) ==
    observed \/ user_muted \/ silence_muted

\* tv.py 437-440: -50 dB is 0, 0 dB is 100, and a muted source shows 0
level_percent(level_db, muted) ==
    IF muted THEN 0 ELSE Max(0, Min(100, (level_db + 50) * 2))

\* the sink-input of the pipeline is gone: a cached id no longer names it
lose_sink(t) == [t EXCEPT !.id = IF @ = "live" THEN "stale" ELSE @]

\* tv.py 329-343
stop_pipeline(t) ==
    IF t.proc # "none"
    THEN [lose_sink(t) EXCEPT !.proc = "none", !.type = "none", !.meter = FALSE]
    ELSE t

\* base.py 109-122 for the kwargs muted, level and level_db, in that order:
\* the new values, and the notifications of those that changed
TvKeys == <<"muted", "level", "level_db">>
tv_update_rest(ts, kw) ==
    [k \in DOMAIN ts |-> IF k \in DOMAIN kw THEN kw[k] ELSE ts[k]]
tv_notifications(ts, kw) ==
    LET ks == SelectSeq(TvKeys, LAMBDA k : k \in DOMAIN kw /\ ts[k] # kw[k])
    IN  [i \in 1 .. Len(ks) |-> Event("tv", ks[i], kw[ks[i]])]

\* tv.py 462-476: what the set_volume call that the mixer made during a
\* notification (if it made one, and the write succeeded) leaves in the source
\* and in the sink-input
tv_after_set_volume(t, c, ok) ==
    IF c.calls # <<>> /\ ok THEN [t EXCEPT !.vol_set = tv_now, !.id = "live"] ELSE t
sink_after_set_volume(k, c, ok) ==
    IF c.calls # <<>> /\ ok THEN [k EXCEPT !.volume = Clamp(c.calls[1][2])] ELSE k

TvEnv == events < MaxTvEvents /\ events' = events + 1 /\ UNCHANGED attached

\* the variables no TV step changes
TvFrame == UNCHANGED <<running, slew_rate, reset_on_stop, default_volumes, workers,
                       src_running, ramp, ext_vars>>
\* a TV step that notifies nothing to the mixer
TvQuiet == UNCHANGED <<src_volume, src_state, was_active, slew_state>> /\ calls' = <<>>

\* time passes
TvTick ==
    /\ tv_now < TvEpoch + MaxTime
    /\ tv_now' = tv_now + 1
    /\ pub' = <<>> /\ writes' = <<>>
    /\ last' = [NoLast EXCEPT !.op = "tick"]
    /\ TvQuiet /\ TvFrame
    /\ UNCHANGED <<tv, sink, tv_state, events, attached>>

\* tv.py 101-115 (mixer.py 415-419)
TvSetPower(on) ==
    /\ TvEnv
    /\ IF on = tv.power_on
       THEN /\ UNCHANGED <<tv, sink, tv_state>> /\ pub' = <<>> /\ TvQuiet
       ELSE IF on
       THEN /\ tv' = [tv EXCEPT !.power_on = TRUE, !.enabled = TRUE]
            /\ UNCHANGED <<sink, tv_state>> /\ pub' = <<>> /\ TvQuiet
       ELSE LET kw == [level |-> 0, level_db |-> FloorLevel]
                c == update_state(Cell("tv"), "tv", "idle", NoVolume,
                                  default_volumes["tv"], reset_on_stop, FALSE)
            IN  /\ tv' = stop_pipeline([tv EXCEPT !.power_on = FALSE, !.enabled = FALSE])
                /\ sink' = NoSink
                /\ tv_state' = tv_update_rest(tv_state, kw)
                /\ Commit("tv", [c EXCEPT !.pub = @ \o tv_notifications(tv_state, kw)])
    /\ writes' = <<>>
    /\ last' = [NoLast EXCEPT !.op = "set_tv_power", !.src = "tv"]
    /\ TvFrame
    /\ UNCHANGED tv_now

\* a check that takes a pipeline that has exited for a running one
pipeline_down_unless_exited(proc) == proc = "none"

\* tv.py 143: `not self._pipeline_proc or self._pipeline_proc.poll() is not
\* None`: no pipeline was started, or the process has exited
pipeline_down(proc) == proc \in {"none", "exited"}

\* a cooldown that is one half second short
cooldown_over_early(now, last_start) == now - last_start >= RestartCooldown - 1

\* tv.py 145-146: the restart cooldown has passed since the last start
cooldown_over(now, last_start) == now - last_start >= RestartCooldown

\* tv.py 151-156 with _start_pipeline 241-251 and 289-327: the control loop
\* finds no running pipeline, the cooldown is over, and the probe picks kind
TvLoopStart(kind) ==
    /\ src_running["tv"] /\ tv.enabled
    /\ pipeline_down(tv.proc)
    /\ cooldown_over(tv_now, tv.last_start)
    /\ tv' = [stop_pipeline(tv) EXCEPT !.last_start = tv_now, !.proc = "running",
                                       !.type = kind, !.meter = (kind = "pcm")]
    /\ pub' = <<>> /\ writes' = <<>>
    /\ last' = [NoLast EXCEPT !.op = "start_pipeline", !.src = "tv", !.note = kind]
    /\ TvQuiet /\ TvFrame
    /\ UNCHANGED <<sink, tv_state, tv_now, events, attached>>

\* the pipeline's pulsesink opens its sink-input
SinkAppear ==
    /\ tv.proc = "running" /\ ~sink.present
    /\ sink' = [NoSink EXCEPT !.present = TRUE]
    /\ pub' = <<>> /\ writes' = <<>>
    /\ last' = [NoLast EXCEPT !.op = "sink_appear", !.src = "tv"]
    /\ TvQuiet /\ TvFrame
    /\ UNCHANGED <<tv, tv_state, tv_now, events, attached>>

\* tv.py 352-364: the meter reads one window whose level is l
MeterRead(l) ==
    /\ src_running["tv"] /\ tv.meter /\ tv.proc = "running"
    /\ tv' = [tv EXCEPT !.level_db = l,
                        !.last_sound = IF l > tv.threshold THEN tv_now ELSE @]
    /\ pub' = <<>> /\ writes' = <<>>
    /\ last' = [NoLast EXCEPT !.op = "meter", !.src = "tv"]
    /\ TvQuiet /\ TvFrame
    /\ UNCHANGED <<sink, tv_state, tv_now, events, attached>>

\* tv.py 389-440: _poll_state up to its _update_state call.  found and info
\* are the outcomes of the two pactl listings, ok that of the mute write.  The
\* result holds the arguments of the call that follows (update says whether
\* there is one), and the source (t), the sink-input (k) and the mute writes
\* as the code before the call leaves them.
poll_locals(found, info, ok) ==
    LET id1 == IF sink.present /\ found THEN "live" ELSE "none"
    IN  IF id1 = "none"
        THEN [note |-> "nosink", update |-> src_state["tv"] # "idle",
              state |-> "idle", volume |-> NoVolume, kw |-> [level |-> 0],
              t |-> [tv EXCEPT !.id = "none"], k |-> sink, writes |-> <<>>]
        ELSE IF ~info
        THEN [note |-> "noinfo", update |-> FALSE,
              state |-> "idle", volume |-> NoVolume, kw |-> [level |-> 0],
              t |-> [tv EXCEPT !.id = "live"], k |-> sink, writes |-> <<>>]
        ELSE LET volume == IF tv_now - tv.vol_set > SetDebounce
                           THEN sink.volume ELSE src_volume["tv"]
                 silent == is_silent(tv.level_db, tv.threshold)
                 exceeded == silence_exceeded(tv_now, tv.last_sound, tv.duration)
                 state == IF ~silent \/ ~exceeded THEN "playing" ELSE "idle"
                 unmute == ~silent /\ unmute_due(tv)
                 mute == silent /\ exceeded /\ auto_mute_due(tv)
                 sm == IF unmute THEN FALSE ELSE IF mute THEN TRUE
                       ELSE tv.silence_muted
                 muted == IF tv_now - tv.mute_set > SetDebounce
                          THEN effective_mute(sink.muted, tv.user_muted, sm)
                          ELSE tv_state.muted
             IN  [note |-> IF ~silent THEN "sound"
                           ELSE IF ~exceeded THEN "dip" ELSE "silence",
                  update |-> TRUE, state |-> state, volume |-> volume,
                  kw |-> [muted |-> muted,
                          level |-> level_percent(tv.level_db, muted),
                          level_db |-> tv.level_db],
                  t |-> [tv EXCEPT !.id = "live", !.silence_muted = sm],
                  k |-> IF unmute /\ ok THEN [sink EXCEPT !.muted = tv.user_muted]
                        ELSE IF mute /\ ok THEN [sink EXCEPT !.muted = TRUE]
                        ELSE sink,
                  writes |-> IF unmute THEN <<tv.user_muted>>
                             ELSE IF mute THEN <<TRUE>> ELSE <<>>]

\* tv.py 395 and 446-452: the _update_state call of _poll_state with the
\* arguments p, on the source t and the sink-input k; ok is the outcome of the
\* volume write of a set_volume the mixer makes during the notifications
poll_update(t, k, p, ok) ==
    LET can == IF p.note = "nosink" THEN k.present /\ ok ELSE ok
        c == IF p.update
             THEN update_state(Cell("tv"), "tv", p.state, p.volume,
                               default_volumes["tv"], reset_on_stop, can)
             ELSE Cell("tv")
    IN  [c |-> IF p.update
               THEN [c EXCEPT !.pub = @ \o tv_notifications(tv_state, p.kw)]
               ELSE c,
         t |-> tv_after_set_volume(t, c, can),
         k |-> sink_after_set_volume(k, c, can),
         ts |-> IF p.update THEN tv_update_rest(tv_state, p.kw) ELSE tv_state]

\* tv.py 157-158 with _poll_state 387-452, as one step
tv_poll(found, info, ok) ==
    LET p == poll_locals(found, info, ok)
        r == poll_update(p.t, p.k, p, ok)
    IN  /\ tv' = r.t
        /\ sink' = r.k
        /\ tv_state' = r.ts
        /\ Commit("tv", r.c)
        /\ writes' = p.writes
        /\ last' = [NoLast EXCEPT !.op = "tv_poll", !.src = "tv", !.note = p.note]

TvPoll(found, info, ok) ==
    /\ src_running["tv"] /\ tv.enabled
    /\ tv_poll(found, info, ok)
    /\ TvFrame
    /\ UNCHANGED <<tv_now, events, attached>>

\* tv.py 484-485: the sink-input id set_muted works with
tv_mute_id(ok) == IF tv.id = "none" /\ sink.present /\ ok THEN "live" ELSE tv.id
\* tv.py 492: the write to the sink-input succeeds
tv_mute_success(ok) == ok /\ sink.present /\ tv_mute_id(ok) = "live"

\* tv.py 482-496: TVSource.set_muted(m)
tv_set_muted(m, ok) ==
    LET id1 == tv_mute_id(ok)
        success == tv_mute_success(ok)
    IN  IF id1 = "none"
        THEN /\ UNCHANGED <<tv, sink, tv_state>>
             /\ pub' = <<>> /\ writes' = <<>>
        ELSE /\ tv' = [tv EXCEPT !.id = id1, !.user_muted = m,
                                 !.mute_set = IF success THEN tv_now ELSE @]
             /\ sink' = IF success THEN [sink EXCEPT !.muted = m] ELSE sink
             /\ tv_state' = IF success THEN [tv_state EXCEPT !.muted = m] ELSE tv_state
             /\ pub' = IF success /\ tv_state.muted # m
                       THEN <<Event("tv", "muted", m)>> ELSE <<>>
             /\ writes' = <<m>>

\* tv.py 482-496 (mixer.py 338-344)
TvSetMuted(m, ok) ==
    /\ TvEnv
    /\ tv_set_muted(m, ok)
    /\ last' = [NoLast EXCEPT !.op = "set_muted", !.src = "tv",
                              !.ret = tv_mute_success(ok)]
    /\ TvQuiet /\ TvFrame
    /\ UNCHANGED tv_now

\* tv.py 538-549 (mixer.py 428-433)
TvSetAutoMute(enabled, ok) ==
    /\ TvEnv
    /\ LET restore == ~enabled /\ tv.silence_muted /\ tv.id # "none"
           success == ok /\ sink.present /\ tv.id = "live"
       IN  /\ tv' = [tv EXCEPT !.auto_mute = enabled,
                               !.silence_muted = IF restore THEN FALSE ELSE @]
           /\ sink' = IF restore /\ success THEN [sink EXCEPT !.muted = tv.user_muted]
                      ELSE sink
           /\ writes' = IF restore THEN <<tv.user_muted>> ELSE <<>>
    /\ pub' = <<Event("tv", "auto_mute", enabled)>>
    /\ last' = [NoLast EXCEPT !.op = "set_auto_mute", !.src = "tv", !.ret = TRUE]
    /\ TvQuiet /\ TvFrame
    /\ UNCHANGED <<tv_state, tv_now>>

\* ------------------------------------------------------------------ Spec
Init == MixerInit

Next ==
    \/ \E oks \in SUBSET (attached \cup {"master"}), dbus \in DBusOutcomes :
          Start(oks, dbus)
    \/ Stop
    \/ \E name \in attached \cup {UnknownSource}, v \in VolumeInputs,
          use_slew \in BOOLEAN, ok \in BOOLEAN :
            SetSourceVolume(name, v, use_slew, ok)
    \/ \E s \in attached, ok \in BOOLEAN :
          \E st \in PollStates(s), v \in PollVolumes(s) : SourcePoll(s, st, v, ok)
    \/ \E s \in attached, ok \in BOOLEAN : SourcePollGone(s, ok)
    \/ \E s \in attached, v \in PolledVolumes : ExternalVolume(s, v)
    \/ \E rate \in SlewRates : SetSlewRate(rate)
    \/ \E b \in BOOLEAN : SetResetOnStop(b)
    \/ \E name \in attached \cup {UnknownSource}, v \in DefaultVolumeInputs :
          SetDefaultVolume(name, v)
    \/ \E s \in Sources, w \in Slots : SlewTick(s, w)
    \/ \E s \in Sources, w \in Slots, ok \in BOOLEAN : SlewApply(s, w, ok)
    \/ \E s \in Sources, w \in Slots : SlewCheck(s, w)

vars == <<mixer_vars, tv_vars, ext_vars>>

Spec == Init /\ [][Next]_vars

\* -------------------------------------------------------------- SpecRamp
\* One ramp, left alone: the mixer is started, the attached source reports a
\* volume c, and a single set_source_volume(s, t) with slewing is followed by
\* the ticks of its worker only (no retarget, no cancellation, no stop).
RampInit ==
    /\ ExtInit
    /\ TVInit(DefaultSilenceDuration)
    /\ running = TRUE
    /\ slew_rate \in RampRates
    /\ reset_on_stop = TRUE
    /\ default_volumes = [s \in Sources |-> DefaultVolume]
    /\ was_active = [s \in Sources |-> FALSE]
    /\ slew_state = [s \in Sources |-> NoJob]
    /\ workers = [s \in Sources |-> [w \in Slots |-> NoWorker]]
    /\ attached \in {{s} : s \in Sources}
    /\ \E c \in RampStarts :
          src_volume = [s \in Sources |-> IF s \in attached THEN c ELSE InitialVolume]
    /\ src_state = [s \in Sources |-> "idle"]
    /\ src_running = [s \in Sources |-> TRUE]
    /\ pub = <<>>
    /\ calls = <<>>
    /\ last = NoLast
    /\ events = 0
    /\ ramp = NoRamp

StartRamp(s, t) ==
    /\ events = 0
    /\ set_source_volume(s, t, TRUE, TRUE)
    /\ ramp' = [from |-> src_volume[s], log |-> <<>>]
    /\ UNCHANGED ext_vars

\* a tick's apply step, recorded
RampApply(s, w, ok) ==
    /\ slew_apply(s, w, ok)
    /\ ramp' = [ramp EXCEPT !.log = Append(@, last'.arg)]

RampNext ==
    \/ \E s \in attached, t \in RampTargets : StartRamp(s, t)
    \/ \E s \in Sources, w \in Slots : SlewTick(s, w)
    \/ \E s \in Sources, w \in Slots, ok \in BOOLEAN : RampApply(s, w, ok)
    \/ \E s \in Sources, w \in Slots : SlewCheck(s, w)

SpecRamp == RampInit /\ [][RampNext]_vars

\* ---------------------------------------------------------------- SpecTV
\* The TV source under a started mixer: the mixer has applied the defaults (the
\* TV has no sink-input yet, so its volume is still the initial one), and the
\* silence duration has been set to a short one.
TvInit ==
    /\ ExtInit
    /\ \E d \in SilenceDurations : TVInit(d)
    /\ running = TRUE
    /\ slew_rate = 0
    /\ reset_on_stop = TRUE
    /\ default_volumes = [s \in Sources |-> DefaultVolume]
    /\ was_active = [s \in Sources |-> FALSE]
    /\ slew_state = [s \in Sources |-> NoJob]
    /\ workers = [s \in Sources |-> [w \in Slots |-> NoWorker]]
    /\ src_volume = [s \in Sources |-> InitialVolume]
    /\ src_state = [s \in Sources |-> "idle"]
    /\ src_running = [s \in Sources |-> TRUE]
    /\ pub = <<>>
    /\ calls = <<>>
    /\ last = NoLast
    /\ events = 0
    /\ ramp = NoRamp
    /\ attached = {"tv"}

TvNext ==
    \/ TvTick
    \/ \E on \in BOOLEAN : TvSetPower(on)
    \/ \E kind \in {"pcm", "bitstream"} : TvLoopStart(kind)
    \/ SinkAppear
    \/ \E l \in LevelInputs : MeterRead(l)
    \/ \E found \in BOOLEAN, info \in BOOLEAN, ok \in BOOLEAN : TvPoll(found, info, ok)
    \/ \E m \in BOOLEAN, ok \in BOOLEAN : TvSetMuted(m, ok)
    \/ \E b \in BOOLEAN, ok \in BOOLEAN : TvSetAutoMute(b, ok)

SpecTV == TvInit /\ [][TvNext]_vars

\* ------------------------------------------------------------ SpecBridge
\* The command router of MediaBridge over a started mixer: MQTT commands
\* arrive as time passes and are routed to the mixer.
\* bounds: tenths of a second that pass in one run
MaxClock == 2

\* the mixer state no routed command but set_source_volume touches
MixerFrame ==
    UNCHANGED <<running, slew_rate, reset_on_stop, default_volumes, was_active,
                slew_state, workers, src_volume, src_state, src_running, ramp,
                attached, tv_vars>>

BridgeInit ==
    /\ ExtInit
    /\ TVInit(DefaultSilenceDuration)
    /\ running = TRUE
    /\ slew_rate \in SlewRates
    /\ reset_on_stop = TRUE
    /\ default_volumes = [s \in Sources |-> DefaultVolume]
    /\ was_active = [s \in Sources |-> FALSE]
    /\ slew_state = [s \in Sources |-> NoJob]
    /\ workers = [s \in Sources |-> [w \in Slots |-> NoWorker]]
    /\ src_volume = [s \in Sources |-> InitialVolume]
    /\ src_state = [s \in Sources |-> "idle"]
    /\ src_running = [s \in Sources |-> TRUE]
    /\ pub = <<>>
    /\ calls = <<>>
    /\ last = NoLast
    /\ events = 0
    /\ ramp = NoRamp
    /\ attached \in {{s} : s \in Sources}

\* time passes
BridgeTick ==
    /\ clock < BridgeEpoch + MaxClock
    /\ clock' = clock + 1
    /\ pub' = <<>> /\ calls' = <<>>
    /\ last' = [NoLast EXCEPT !.op = "tick"]
    /\ MixerFrame
    /\ UNCHANGED <<events, master_volume, src_muted, last_volume_cmd, arrivals,
                   thread_vars>>

\* a limiter that also drops the command that arrives exactly one cooldown
\* after the last one
rate_limited_inclusive(now, last_cmd) == now - last_cmd <= VolumeCmdCooldown

\* main.py 125-127
rate_limited(now, last_cmd) == now - last_cmd < VolumeCmdCooldown

\* main.py 119-133: source_<name>_set_volume with payload v
MqttSetVolume(name, v, ok) ==
    IF rate_limited(clock, last_volume_cmd[name])
    THEN /\ Env
         /\ pub' = <<>> /\ calls' = <<>>
         /\ last' = [NoLast EXCEPT !.op = "rate_limited", !.src = name, !.arg = v]
         /\ arrivals' = [arrivals EXCEPT ![name].at = clock, ![name].applied = FALSE]
         /\ MixerFrame
         /\ UNCHANGED <<master_volume, src_muted, clock, last_volume_cmd,
                        thread_vars>>
    ELSE /\ last_volume_cmd' = [last_volume_cmd EXCEPT ![name] = clock]
         /\ set_source_volume(name, v, TRUE, ok)
         /\ arrivals' = [arrivals EXCEPT ![name] =
                            [at |-> clock, applied |-> TRUE, applied_at |-> clock]]
         /\ UNCHANGED <<ramp, master_volume, src_muted, clock, thread_vars>>

\* main.py 180-183 with mixer.py 472-498: set_master_volume with payload v
MqttSetMasterVolume(v, ok) ==
    /\ Env
    /\ LET r == set_master_volume(v, ok)
       IN  /\ master_volume' = r.stored
           /\ pub' = r.pub
           /\ last' = [NoLast EXCEPT !.op = "set_master_volume", !.arg = v,
                                     !.ret = r.ret]
    /\ calls' = <<>>
    /\ MixerFrame
    /\ UNCHANGED <<src_muted, clock, last_volume_cmd, arrivals, thread_vars>>

\* base.py 150-151 and 159-161, tv.py 478-480
get_muted(s) == IF s = "tv" THEN tv_state.muted ELSE src_muted[s]

\* the state a mute command does not touch
MuteFrame ==
    UNCHANGED <<running, slew_rate, reset_on_stop, default_volumes, was_active,
                slew_state, workers, src_volume, src_state, src_running, ramp,
                attached, master_volume, clock, last_volume_cmd, arrivals,
                thread_vars>>

\* mixer.py 338-344 with spotify.py 310-326, airplay.py 345-363 and tv.py
\* 482-496; ok is the outcome of finding the sink-input and writing to it
set_source_mute(op, name, m, ok) ==
    /\ Env
    /\ calls' = <<>>
    /\ MuteFrame
    /\ IF name \notin Sources
       THEN /\ last' = [NoLast EXCEPT !.op = op, !.src = name, !.ret = FALSE]
            /\ pub' = <<>>
            /\ UNCHANGED <<src_muted, tv_vars>>
       ELSE IF name = "tv"
       THEN /\ tv_set_muted(m, ok)
            /\ last' = [NoLast EXCEPT !.op = op, !.src = name, !.note = "set_muted",
                                      !.ret = tv_mute_success(ok)]
            /\ UNCHANGED <<src_muted, tv_now>>
       ELSE /\ src_muted' = IF ok THEN [src_muted EXCEPT ![name] = m] ELSE src_muted
            /\ pub' = IF ok /\ src_muted[name] # m
                      THEN <<Event(name, "muted", m)>> ELSE <<>>
            /\ last' = [NoLast EXCEPT !.op = op, !.src = name, !.note = "set_muted",
                                      !.ret = ok]
            /\ UNCHANGED tv_vars

SetSourceMute(name, m, ok) == set_source_mute("set_source_mute", name, m, ok)

\* mixer.py 346-352 with base.py 159-161
ToggleSourceMute(name, ok) ==
    set_source_mute("toggle_source_mute", name,
                    IF name \in Sources THEN ~get_muted(name) ELSE FALSE, ok)

\* the source method behind each playback command of the mixer
PlaybackMethod == [source_play |-> "play", source_pause |-> "pause",
                   source_stop |-> "stop_playback"]

\* a playback command that calls the method without looking the name up
source_playback_unchecked(op, name, ok) ==
    [called |-> PlaybackMethod[op], ret |-> (name = "spotify" /\ ok)]

\* mixer.py 354-376 with spotify.py 336-373 (the MPRIS call, whose outcome is
\* ok) and base.py 170-180 (AirPlay and TV: not supported): the source method
\* called and the result
source_playback(op, name, ok) ==
    IF name \notin Sources
    THEN [called |-> "", ret |-> FALSE]
    ELSE [called |-> PlaybackMethod[op], ret |-> (name = "spotify" /\ ok)]

SourcePlayback(op, name, ok) ==
    /\ Env
    /\ pub' = <<>> /\ calls' = <<>>
    /\ LET r == source_playback(op, name, ok)
       IN  last' = [NoLast EXCEPT !.op = op, !.src = name, !.note = r.called,
                                 !.ret = r.ret]
    /\ MuteFrame
    /\ UNCHANGED <<src_muted, tv_vars>>

BridgeNext ==
    \/ BridgeTick
    \/ \E name \in attached \cup {UnknownSource}, m \in BOOLEAN, ok \in BOOLEAN :
          SetSourceMute(name, m, ok)
    \/ \E name \in attached \cup {UnknownSource}, ok \in BOOLEAN :
          ToggleSourceMute(name, ok)
    \/ \E op \in DOMAIN PlaybackMethod, name \in attached \cup {UnknownSource},
          ok \in BOOLEAN : SourcePlayback(op, name, ok)
    \/ \E name \in attached \cup {UnknownSource}, v \in CommandVolumes,
          ok \in BOOLEAN : MqttSetVolume(name, v, ok)
    \/ \E v \in MasterVolumeInputs, ok \in BOOLEAN : MqttSetMasterVolume(v, ok)
    \/ \E s \in Sources, w \in Slots : SlewTick(s, w)
    \/ \E s \in Sources, w \in Slots, ok \in BOOLEAN : SlewApply(s, w, ok)
    \/ \E s \in Sources, w \in Slots : SlewCheck(s, w)

SpecBridge == BridgeInit /\ [][BridgeNext]_vars


\* ----------------------------------------------------------- SpecSpotify
\* The Spotify source with its two threads: the polling loop and a caller of
\* set_volume (the command thread or a ramp worker).  spotifyd runs, its
\* sink-input exists and its MPRIS Volume property returns the double that was
\* written to it last, by set_volume or by the Spotify app.

\* spotify.py 283: dbus.Double(volume / 100.0), kept as the percent it was
\* computed from
to_mpris(volume) == volume
\* spotify.py 206-207: int(float(x) * 100) for the double x = p / 100.0; the
\* product is just below p for 29, 57 and 58, and int() truncates
from_mpris(p) == IF p \in {29, 57, 58} THEN p - 1 ELSE p

\* volumes set_volume is called with, and volumes the app sets
SetVolumes == {29, 52}
AppVolumes == {40}

SpotifyInit ==
    /\ ExtInit
    /\ TVInit(DefaultSilenceDuration)
    /\ running = TRUE
    /\ slew_rate = 0
    /\ reset_on_stop = TRUE
    /\ default_volumes = [s \in Sources |-> DefaultVolume]
    /\ was_active = [s \in Sources |-> FALSE]
    /\ slew_state = [s \in Sources |-> NoJob]
    /\ workers = [s \in Sources |-> [w \in Slots |-> NoWorker]]
    /\ src_volume = [s \in Sources |-> InitialVolume]
    /\ src_state = [s \in Sources |-> "idle"]
    /\ src_running = [s \in Sources |-> TRUE]
    /\ pub = <<>>
    /\ calls = <<>>
    /\ last = NoLast
    /\ events = 0
    /\ ramp = NoRamp
    /\ attached = {"spotify"}

\* what no step of the Spotify threads changes
SpotifyFrame ==
    UNCHANGED <<running, slew_rate, reset_on_stop, default_volumes, workers,
                src_running, ramp, attached, bridge_vars, tv_vars, loop, halt,
                slew_lock, meters, state_lock>>

\* spotify.py 266-288: set_volume(v) up to and including props.Set; ok is the
\* outcome of the sink-input write
SpotifySetBegin(v, ok) ==
    /\ Env
    /\ sp.set_pc = "idle"
    /\ sp' = [sp EXCEPT !.pa = IF ok THEN Clamp(v) ELSE @,
                        !.mpris = to_mpris(Clamp(v)), !.origin = "set_volume",
                        !.set_pc = "set", !.set_vol = v, !.set_ok = ok]
    /\ pub' = <<>> /\ calls' = <<>>
    /\ last' = [NoLast EXCEPT !.op = "set_volume_begin", !.src = "spotify", !.arg = v]
    /\ UNCHANGED <<src_volume, src_state, was_active, slew_state>>
    /\ SpotifyFrame

\* spotify.py 285-295: the rest of set_volume
SpotifySetEnd ==
    /\ sp.set_pc = "set"
    /\ sp' = [sp EXCEPT !.last_mpris = Clamp(sp.set_vol), !.set_pc = "idle"]
    /\ LET c == set_volume(Cell("spotify"), "spotify", sp.set_vol, sp.set_ok)
       IN  /\ Commit("spotify", c)
           /\ last' = [NoLast EXCEPT !.op = "set_volume_end", !.src = "spotify",
                                     !.arg = sp.set_vol, !.ret = c.ret]
    /\ UNCHANGED events
    /\ SpotifyFrame

\* spotify.py 170-249: one poll cycle; st is the playback status read
SpotifyPoll(st, ok) ==
    /\ src_running["spotify"]
    /\ LET mpris_volume == from_mpris(sp.mpris)
           external == sp.last_mpris >= 0 /\ mpris_volume # sp.last_mpris
           volume == IF external THEN mpris_volume ELSE sp.pa
           c1 == IF external
                 THEN handle_external_volume(Cell("spotify"), "spotify", mpris_volume)
                 ELSE Cell("spotify")
           c2 == update_state(c1, "spotify", st, volume, default_volumes["spotify"],
                              reset_on_stop, ok)
           \* the sink-input after _sync_volume_to_pulseaudio (spotify.py 213)
           synced == IF external THEN mpris_volume ELSE sp.pa
           \* the mixer reacted to the state with set_volume(default), which
           \* runs whole inside _update_state (spotify.py 243)
           nested == c2.calls # <<>>
           dflt == Clamp(default_volumes["spotify"])
       IN  /\ sp' = IF nested
                    THEN [sp EXCEPT !.pa = IF ok THEN dflt ELSE synced,
                                    !.mpris = to_mpris(dflt), !.origin = "set_volume",
                                    !.last_mpris = dflt]
                    ELSE [sp EXCEPT !.pa = synced, !.last_mpris = mpris_volume]
           /\ Commit("spotify", c2)
           /\ last' = [NoLast EXCEPT !.op = IF external THEN "poll_external"
                                            ELSE "poll",
                                     !.src = "spotify", !.arg = mpris_volume,
                                     !.note = sp.origin]
    /\ UNCHANGED events
    /\ SpotifyFrame

\* the user moves the volume slider of the Spotify app
SpotifyAppVolume(v) ==
    /\ Env
    /\ sp' = [sp EXCEPT !.mpris = v, !.origin = "app"]
    /\ pub' = <<>> /\ calls' = <<>>
    /\ last' = [NoLast EXCEPT !.op = "app_volume", !.src = "spotify", !.arg = v]
    /\ UNCHANGED <<src_volume, src_state, was_active, slew_state>>
    /\ SpotifyFrame

SpotifyNext ==
    \/ \E v \in SetVolumes, ok \in BOOLEAN : SpotifySetBegin(v, ok)
    \/ SpotifySetEnd
    \/ \E st \in PlaybackStates, ok \in BOOLEAN : SpotifyPoll(st, ok)
    \/ \E v \in AppVolumes : SpotifyAppVolume(v)

SpecSpotify == SpotifyInit /\ [][SpotifyNext]_vars

\* ---------------------------------------------------------- SpecPipeline
\* The control loop of the TV source (TVSource._run), one statement group at a
\* time, against set_tv_power calls from the MQTT thread: the TV has been
\* reported on, the decode pipeline exits or fails to start, and notifications
\* raise.
\* bounds: half seconds that pass in one run
MaxPipelineTime == 5

PipelineInit ==
    /\ ExtInit
    /\ \E d \in SilenceDurations :
          /\ tv = [new_tv(d) EXCEPT !.power_on = TRUE, !.enabled = TRUE]
          /\ sink = NoSink
          /\ tv_state = [muted |-> FALSE, level |-> 0, level_db |-> FloorLevel]
          /\ tv_now = TvEpoch
          /\ writes = <<>>
    /\ running = TRUE
    /\ slew_rate = 0
    /\ reset_on_stop = TRUE
    /\ default_volumes = [s \in Sources |-> DefaultVolume]
    /\ was_active = [s \in Sources |-> FALSE]
    /\ slew_state = [s \in Sources |-> NoJob]
    /\ workers = [s \in Sources |-> [w \in Slots |-> NoWorker]]
    /\ src_volume = [s \in Sources |-> InitialVolume]
    /\ src_state = [s \in Sources |-> "idle"]
    /\ src_running = [s \in Sources |-> TRUE]
    /\ pub = <<>>
    /\ calls = <<>>
    /\ last = NoLast
    /\ events = 0
    /\ ramp = NoRamp
    /\ attached = {"tv"}

\* the variables no step of the control loop changes
LoopFrame == UNCHANGED <<running, slew_rate, reset_on_stop, default_volumes, workers,
                         src_running, ramp, bridge_vars, sp, halt, slew_lock, meters,
                         state_lock, tv_now, events, attached>>

\* time passes
PipelineTick ==
    /\ tv_now < TvEpoch + MaxPipelineTime
    /\ tv_now' = tv_now + 1
    /\ pub' = <<>> /\ writes' = <<>>
    /\ last' = [NoLast EXCEPT !.op = "tick"]
    /\ TvQuiet /\ TvFrame
    /\ UNCHANGED <<tv, sink, tv_state, events, attached>>

\* the decode pipeline exits by itself: its sink-input goes with it
PipelineExit ==
    /\ tv.proc = "running"
    /\ tv' = [lose_sink(tv) EXCEPT !.proc = "exited"]
    /\ sink' = NoSink
    /\ loop' = [loop EXCEPT !.cause = "crash"]
    /\ pub' = <<>> /\ writes' = <<>>
    /\ last' = [NoLast EXCEPT !.op = "pipeline_exit", !.src = "tv"]
    /\ TvQuiet /\ LoopFrame
    /\ UNCHANGED tv_state

\* tv.py 139-158, the head of one pass: with the pipeline enabled, the loop
\* enters _start_pipeline when no pipeline runs and the cooldown is over, and
\* goes on to _poll_state otherwise; with the pipeline disabled it stops the
\* pipeline, reports idle and sleeps
LoopTop ==
    /\ loop.pc = "top" /\ src_running["tv"]
    /\ IF tv.enabled
       THEN /\ loop' = [loop EXCEPT !.pc =
                          IF /\ pipeline_down(tv.proc)
                             /\ cooldown_over(tv_now, tv.last_start)
                          THEN "start" ELSE "poll"]
            /\ UNCHANGED <<tv, sink, tv_state>>
            /\ pub' = <<>> /\ TvQuiet
       ELSE LET kw == [level |-> 0, level_db |-> FloorLevel]
                upd == src_state["tv"] # "idle"
                c == IF upd
                     THEN update_state(Cell("tv"), "tv", "idle", NoVolume,
                                       default_volumes["tv"], reset_on_stop, FALSE)
                     ELSE Cell("tv")
            IN  /\ tv' = stop_pipeline(tv)
                /\ sink' = IF tv.proc # "none" THEN NoSink ELSE sink
                /\ tv_state' = IF upd THEN tv_update_rest(tv_state, kw) ELSE tv_state
                /\ Commit("tv", IF upd
                                THEN [c EXCEPT !.pub = @ \o tv_notifications(tv_state, kw)]
                                ELSE c)
                /\ UNCHANGED loop
    /\ writes' = <<>>
    /\ last' = [NoLast EXCEPT !.op = "loop_top", !.src = "tv",
                              !.note = IF tv.enabled THEN "enabled" ELSE "disabled"]
    /\ LoopFrame

\* tv.py 243-244: _start_pipeline stops what is left of the old pipeline and
\* stamps the start
LoopStamp ==
    /\ loop.pc = "start"
    /\ tv' = [stop_pipeline(tv) EXCEPT !.last_start = tv_now]
    /\ sink' = IF tv.proc # "none" THEN NoSink ELSE sink
    /\ loop' = [loop EXCEPT !.pc = "probe", !.prev_start = loop.this_start,
                            !.this_start = tv_now]
    /\ pub' = <<>> /\ writes' = <<>>
    /\ last' = [NoLast EXCEPT !.op = "start_pipeline", !.src = "tv",
                              !.note = loop.cause]
    /\ TvQuiet /\ LoopFrame
    /\ UNCHANGED tv_state

\* tv.py 246-251 with 253-327: the probe returns and picks the kind of the
\* pipeline; ok says that the tools are there and Popen succeeds
LoopLaunch(kind, ok) ==
    /\ loop.pc = "probe"
    /\ tv' = IF ok THEN [tv EXCEPT !.proc = "running", !.type = kind,
                                   !.meter = (kind = "pcm")]
             ELSE tv
    /\ loop' = [loop EXCEPT !.pc = "poll", !.cause = IF ok THEN @ ELSE "failed"]
    /\ pub' = <<>> /\ writes' = <<>>
    /\ last' = [NoLast EXCEPT !.op = "launch", !.src = "tv", !.note = kind, !.ret = ok]
    /\ TvQuiet /\ LoopFrame
    /\ UNCHANGED <<sink, tv_state>>

\* tv.py 151 with _poll_state 387-452, and 160-163: raised says that a
\* callback of the _update_state call raises after the state is stored; the
\* loop then stops the pipeline
LoopPoll(found, info, ok, raised) ==
    /\ loop.pc = "poll"
    /\ LET p == poll_locals(found, info, ok)
           r == poll_update(p.t, p.k, p, ok)
       IN  /\ raised => r.c.pub # <<>>
           /\ tv' = IF raised THEN stop_pipeline(r.t) ELSE r.t
           /\ sink' = IF raised /\ r.t.proc # "none" THEN NoSink ELSE r.k
           /\ tv_state' = r.ts
           /\ Commit("tv", r.c)
           /\ writes' = p.writes
           /\ last' = [NoLast EXCEPT !.op = "tv_poll", !.src = "tv", !.note = p.note,
                                     !.ret = ~raised]
    /\ loop' = [loop EXCEPT !.pc = "top", !.cause = IF raised THEN "exception" ELSE @]
    /\ LoopFrame

PipelineNext ==
    \/ PipelineTick
    \/ \E on \in BOOLEAN : TvSetPower(on)
    \/ PipelineExit
    \/ SinkAppear
    \/ LoopTop
    \/ LoopStamp
    \/ \E kind \in {"pcm", "bitstream"}, ok \in BOOLEAN : LoopLaunch(kind, ok)
    \/ \E found \in BOOLEAN, info \in BOOLEAN, ok \in BOOLEAN, raised \in BOOLEAN :
          LoopPoll(found, info, ok, raised)

SpecPipeline == PipelineInit /\ [][PipelineNext]_vars
\* ---------------------------------------------------------- SpecDebounce
\* The poll of the TV control loop, split at its _update_state call, against
\* set_volume and set_muted calls from the MQTT thread: the TV is on and its
\* PCM pipeline has been started and has opened its sink-input.
DebounceInit ==
    /\ ExtInit
    /\ \E d \in SilenceDurations :
          /\ tv = [new_tv(d) EXCEPT !.power_on = TRUE, !.enabled = TRUE,
                                    !.proc = "running", !.type = "pcm",
                                    !.meter = TRUE, !.last_start = TvEpoch]
          /\ sink = [NoSink EXCEPT !.present = TRUE]
          /\ tv_state = [muted |-> FALSE, level |-> 0, level_db |-> FloorLevel]
          /\ tv_now = TvEpoch
          /\ writes = <<>>
    /\ running = TRUE
    /\ slew_rate = 0
    /\ reset_on_stop = TRUE
    /\ default_volumes = [s \in Sources |-> DefaultVolume]
    /\ was_active = [s \in Sources |-> FALSE]
    /\ slew_state = [s \in Sources |-> NoJob]
    /\ workers = [s \in Sources |-> [w \in Slots |-> NoWorker]]
    /\ src_volume = [s \in Sources |-> InitialVolume]
    /\ src_state = [s \in Sources |-> "idle"]
    /\ src_running = [s \in Sources |-> TRUE]
    /\ pub = <<>>
    /\ calls = <<>>
    /\ last = NoLast
    /\ events = 0
    /\ ramp = NoRamp
    /\ attached = {"tv"}

\* tv.py 462-476 (mixer.py 216-235 with slewing off): TVSource.set_volume(v)
\* called through set_source_volume
TvSetVolume(v, ok) ==
    /\ TvEnv
    /\ LET success == tv_mute_success(ok)
           c == set_volume(Cell("tv"), "tv", Clamp(v), success)
       IN  /\ Commit("tv", c)
           /\ tv' = tv_after_set_volume([tv EXCEPT !.id = tv_mute_id(ok)], c, success)
           /\ sink' = sink_after_set_volume(sink, c, success)
           /\ last' = [NoLast EXCEPT !.op = "set_source_volume", !.src = "tv",
                                     !.arg = v, !.ret = c.ret, !.note = "direct"]
    /\ writes' = <<>>
    /\ TvFrame
    /\ UNCHANGED <<tv_state, tv_now>>

\* tv.py 142 and 151 with _poll_state 389-444: the poll reads the sink-input
\* and the clock and computes the arguments of its _update_state call
PollBegin(found, info, ok) ==
    /\ loop.pc = "top" /\ src_running["tv"] /\ tv.enabled
    /\ LET p == poll_locals(found, info, ok)
       IN  /\ tv' = p.t
           /\ sink' = p.k
           /\ writes' = p.writes
           /\ loop' = [loop EXCEPT !.pc = "update",
                          !.p = [note |-> p.note, update |-> p.update, state |-> p.state,
                                 volume |-> p.volume, kw |-> p.kw]]
           /\ last' = [NoLast EXCEPT !.op = "tv_poll_read", !.src = "tv", !.note = p.note]
    /\ pub' = <<>> /\ TvQuiet
    /\ LoopFrame
    /\ UNCHANGED tv_state

\* tv.py 446-452 (and 395): the _update_state call of the poll
PollEnd(ok) ==
    /\ loop.pc = "update"
    /\ LET r == poll_update(tv, sink, loop.p, ok)
       IN  /\ tv' = r.t
           /\ sink' = r.k
           /\ tv_state' = r.ts
           /\ Commit("tv", r.c)
    /\ writes' = <<>>
    /\ loop' = [loop EXCEPT !.pc = "top"]
    /\ last' = [NoLast EXCEPT !.op = "tv_poll", !.src = "tv", !.note = loop.p.note]
    /\ LoopFrame

DebounceNext ==
    \/ TvTick
    \/ \E l \in LevelInputs : MeterRead(l)
    \/ \E v \in CommandVolumes, ok \in BOOLEAN : TvSetVolume(v, ok)
    \/ \E m \in BOOLEAN, ok \in BOOLEAN : TvSetMuted(m, ok)
    \/ \E found \in BOOLEAN, info \in BOOLEAN, ok \in BOOLEAN : PollBegin(found, info, ok)
    \/ \E ok \in BOOLEAN : PollEnd(ok)

SpecDebounce == DebounceInit /\ [][DebounceNext]_vars
\* -------------------------------------------------------------- SpecStop
\* AudioMixer.stop(), one statement group at a time, over a started mixer
\* whose ramp workers run and whose commands keep arriving meanwhile.
\* mixer.py 77-95: the order of self._sources
SourceOrder == <<"spotify", "airplay", "tv">>

StopInit == BridgeInit

\* what no step of stop() changes
StopFrame == UNCHANGED <<slew_rate, reset_on_stop, default_volumes, was_active, workers,
                         src_volume, src_state, ramp, attached, tv_vars, bridge_vars,
                         sp, loop, slew_lock, meters, state_lock>>

\* a stop loop without the try: it ends at the first source whose stop() raises
stop_loop_aborts(i, raised) == IF raised THEN Len(SourceOrder) + 1 ELSE i + 1

\* mixer.py 191-196: where the loop over the sources goes on after the stop()
\* of source number i returned or raised
stop_loop_after(i, raised) == i + 1

\* mixer.py 183
StopBegin ==
    /\ Env
    /\ running /\ halt.pc = "idle"
    /\ running' = FALSE
    /\ halt' = [NoHalt EXCEPT !.pc = "slews",
                   !.jobs = {s \in Sources : slew_state[s].present /\ slew_state[s].active}]
    /\ pub' = <<>> /\ calls' = <<>>
    /\ last' = [NoLast EXCEPT !.op = "stop", !.note = "begin"]
    /\ UNCHANGED <<slew_state, src_running>>
    /\ StopFrame

\* mixer.py 185-189: under the lock, every job is marked inactive and the
\* table is emptied
StopSlews ==
    /\ halt.pc = "slews"
    /\ slew_state' = [s \in Sources |-> NoJob]
    /\ halt' = [halt EXCEPT !.pc = "sources", !.cleared = TRUE]
    /\ pub' = <<>> /\ calls' = <<>>
    /\ last' = [NoLast EXCEPT !.op = "stop", !.note = "slews"]
    /\ UNCHANGED <<running, src_running, events>>
    /\ StopFrame

\* mixer.py 191-196 with the stop() of the sources (spotify.py 152-158,
\* airplay.py 96-105, tv.py 117-124): the next source is stopped; raised says
\* that its stop() raises after it has cleared _running
StopSource(raised) ==
    /\ halt.pc = "sources"
    /\ LET s == SourceOrder[halt.i]
           j == stop_loop_after(halt.i, raised)
       IN  /\ src_running' = [src_running EXCEPT ![s] = FALSE]
           /\ halt' = [halt EXCEPT !.i = j,
                          !.pc = IF j > Len(SourceOrder) THEN "idle" ELSE "sources",
                          !.invoked = Append(@, s),
                          !.raised = IF raised THEN @ \cup {s} ELSE @]
           /\ last' = [NoLast EXCEPT !.op = "stop", !.src = s, !.note = "source",
                                     !.ret = ~raised]
    /\ pub' = <<>> /\ calls' = <<>>
    /\ UNCHANGED <<running, slew_state, events>>
    /\ StopFrame

StopNext ==
    \/ \E name \in attached, v \in VolumeInputs, use_slew \in BOOLEAN, ok \in BOOLEAN :
          SetSourceVolume(name, v, use_slew, ok)
    \/ \E s \in attached, w \in Slots : SlewTick(s, w)
    \/ \E s \in attached, w \in Slots, ok \in BOOLEAN : SlewApply(s, w, ok)
    \/ \E s \in attached, w \in Slots : SlewCheck(s, w)
    \/ StopBegin
    \/ StopSlews
    \/ \E raised \in BOOLEAN : StopSource(raised)

SpecStop == StopInit /\ [][StopNext]_vars
\* ------------------------------------------------------------- SpecRange
\* The started mixer with sources whose output stream reports any percentage
\* PulseAudio can hold, also above 100, and commands that carry any volume.
\* spotify.py 183, airplay.py 298, tv.py 404: info.get("volume") of a
\* sink-input, inside and above the legal range
StreamVolumes == {40, 150}

RangeInit == BridgeInit

RangeNext ==
    \/ \E name \in attached, v \in VolumeInputs, use_slew \in BOOLEAN, ok \in BOOLEAN :
          SetSourceVolume(name, v, use_slew, ok)
    \/ \E s \in attached, ok \in BOOLEAN :
          \E st \in PollStates(s), v \in StreamVolumes : SourcePoll(s, st, v, ok)
    \/ \E s \in attached, ok \in BOOLEAN : SourcePollGone(s, ok)
    \/ \E s \in attached, v \in PolledVolumes : ExternalVolume(s, v)
    \/ \E s \in attached, w \in Slots : SlewTick(s, w)
    \/ \E s \in attached, w \in Slots, ok \in BOOLEAN : SlewApply(s, w, ok)
    \/ \E s \in attached, w \in Slots : SlewCheck(s, w)

SpecRange == RangeInit /\ [][RangeNext]_vars
\* -------------------------------------------------------------- SpecLock
\* The started mixer with AudioMixer._slew_lock followed: a worker's pass is
\* split where it takes the lock and where the `with` block ends, and every
\* other locked section takes the lock for the length of its step.
LockInit == BridgeInit

\* a `with` block that keeps the lock when it ends
with_exit_keeps(holder) == holder

\* mixer.py 285-306: the lock after the `with self._slew_lock` block has been
\* left, by falling through or by `break`
with_exit(holder) == NoHolder

LockFrame == UNCHANGED <<ramp, tv_vars, bridge_vars, sp, loop, halt, meters, state_lock,
                         running, slew_rate, reset_on_stop, default_volumes, was_active, src_volume,
                         src_state, src_running, events, attached>>

\* mixer.py 284-285: the loop head and the acquisition of the lock
SlewAcquire(s, w) ==
    /\ workers[s][w].pc = "loop"
    /\ IF ~running
       THEN /\ workers' = [workers EXCEPT ![s][w] = NoWorker]
            /\ UNCHANGED slew_lock
       ELSE /\ slew_lock = NoHolder
            /\ slew_lock' = <<s, w>>
            /\ workers' = [workers EXCEPT ![s][w].pc = "locked"]
    /\ pub' = <<>> /\ calls' = <<>>
    /\ last' = [NoLast EXCEPT !.op = "slew_acquire", !.src = s]
    /\ UNCHANGED slew_state
    /\ LockFrame

\* mixer.py 286-306: the locked section, up to the end of the `with` block
SlewLocked(s, w) ==
    /\ workers[s][w].pc = "locked"
    /\ slew_lock = <<s, w>>
    /\ LET r == slew_pass(slew_state[s], workers[s][w])
       IN  /\ slew_state' = [slew_state EXCEPT ![s] = r.job]
           /\ workers' = [workers EXCEPT ![s][w] = r.me]
    /\ slew_lock' = with_exit(slew_lock)
    /\ pub' = <<>> /\ calls' = <<>>
    /\ last' = [NoLast EXCEPT !.op = "slew_tick", !.src = s]
    /\ LockFrame

\* mixer.py 316-324: the check takes the lock only to remove the entry
LockedSlewCheck(s, w) ==
    /\ reached(workers[s][w].new_vol, workers[s][w].target) => slew_lock = NoHolder
    /\ SlewCheck(s, w)

\* mixer.py 233-234, 243: a ramping command takes the lock in _start_slew
LockedSetSourceVolume(name, v, use_slew, ok) ==
    /\ (use_slew /\ slew_rate > 0) => slew_lock = NoHolder
    /\ SetSourceVolume(name, v, use_slew, ok)

\* mixer.py 157, 332-336: stop_slew takes the lock
LockedExternalVolume(s, v) ==
    /\ slew_lock = NoHolder
    /\ ExternalVolume(s, v)

LockNext ==
    \/ \E name \in attached, v \in VolumeInputs, use_slew \in BOOLEAN, ok \in BOOLEAN :
          LockedSetSourceVolume(name, v, use_slew, ok)
    \/ \E s \in attached, v \in PolledVolumes : LockedExternalVolume(s, v)
    \/ \E s \in attached, w \in Slots : SlewAcquire(s, w)
    \/ \E s \in attached, w \in Slots : SlewLocked(s, w)
    \/ \E s \in attached, w \in Slots, ok \in BOOLEAN : SlewApply(s, w, ok)
    \/ \E s \in attached, w \in Slots : LockedSlewCheck(s, w)

SpecLock == LockInit /\ [][LockNext]_vars
\* ------------------------------------------------------------ SpecTvStop
\* The control loop of the TV source against a stop() call of the source: the
\* call clears _running, stops the pipeline and joins the loop thread.
TvStopInit == PipelineInit

\* what neither the stop() call nor the end of the loop changes
TvStopFrame == UNCHANGED <<running, slew_rate, reset_on_stop, default_volumes, workers,
                           ramp, bridge_vars, sp, slew_lock, meters, state_lock, tv_now,
                           events, attached,
                           tv_state>>

\* tv.py 119-120: stop() clears _running and stops the pipeline
TvStopBegin ==
    /\ halt.pc = "idle" /\ src_running["tv"]
    /\ src_running' = [src_running EXCEPT !["tv"] = FALSE]
    /\ tv' = stop_pipeline(tv)
    /\ sink' = IF tv.proc # "none" THEN NoSink ELSE sink
    /\ halt' = [halt EXCEPT !.pc = "tv_join"]
    /\ pub' = <<>> /\ writes' = <<>>
    /\ last' = [NoLast EXCEPT !.op = "tv_stop", !.src = "tv", !.note = "begin"]
    /\ TvQuiet /\ TvStopFrame
    /\ UNCHANGED loop

\* tv.py 139: the loop reads _running at the head of a pass and ends
LoopEnd ==
    /\ loop.pc = "top" /\ ~src_running["tv"]
    /\ loop' = [loop EXCEPT !.pc = "done"]
    /\ pub' = <<>> /\ writes' = <<>>
    /\ last' = [NoLast EXCEPT !.op = "loop_end", !.src = "tv"]
    /\ TvQuiet /\ TvStopFrame
    /\ UNCHANGED <<tv, sink, src_running, halt>>

\* tv.py 121-124: the join returns when the loop thread has ended, and stop()
\* returns
TvStopJoin ==
    /\ halt.pc = "tv_join" /\ loop.pc = "done"
    /\ halt' = [halt EXCEPT !.pc = "tv_stopped"]
    /\ pub' = <<>> /\ writes' = <<>>
    /\ last' = [NoLast EXCEPT !.op = "tv_stop", !.src = "tv", !.note = "returned"]
    /\ TvQuiet /\ TvStopFrame
    /\ UNCHANGED <<tv, sink, src_running, loop>>

TvStopNext ==
    \/ PipelineTick
    \/ PipelineExit
    \/ SinkAppear
    \/ LoopTop
    \/ LoopStamp
    \/ \E kind \in {"pcm", "bitstream"}, ok \in BOOLEAN : LoopLaunch(kind, ok)
    \/ \E found \in BOOLEAN, info \in BOOLEAN, ok \in BOOLEAN, raised \in BOOLEAN :
          LoopPoll(found, info, ok, raised)
    \/ LoopEnd
    \/ TvStopBegin
    \/ TvStopJoin

SpecTvStop == TvStopInit /\ [][TvStopNext]_vars
\* ----------------------------------------------------------- SpecRecover
\* The control loop of the TV source while the TV stays on and the source
\* keeps running: the decode pipeline exits by itself, the tools are installed
\* and Popen succeeds.  The loop thread and the clock keep going.
RecoverInit == PipelineInit

RecoverNext ==
    \/ PipelineTick
    \/ PipelineExit
    \/ SinkAppear
    \/ LoopTop
    \/ LoopStamp
    \/ \E kind \in {"pcm", "bitstream"} : LoopLaunch(kind, TRUE)
    \/ \E found \in BOOLEAN, info \in BOOLEAN, ok \in BOOLEAN, raised \in BOOLEAN :
          LoopPoll(found, info, ok, raised)

\* tv.py 139-165: the loop thread is scheduled and time.sleep returns
RecoverFairness ==
    /\ WF_vars(PipelineTick)
    /\ WF_vars(LoopTop)
    /\ WF_vars(LoopStamp)
    /\ WF_vars(\E kind \in {"pcm", "bitstream"} : LoopLaunch(kind, TRUE))
    /\ WF_vars(\E found \in BOOLEAN, info \in BOOLEAN, ok \in BOOLEAN,
                  raised \in BOOLEAN : LoopPoll(found, info, ok, raised))

SpecRecover == RecoverInit /\ [][RecoverNext]_vars /\ RecoverFairness
\* ------------------------------------------------------------- SpecMeter
\* The control loop of the TV source with the tv-level-meter threads it
\* starts: every PCM pipeline start spawns a thread, and a thread looks at
\* self._pipeline_proc anew on each pass of its loop.
MeterInit == PipelineInit

\* what neither a pipeline launch nor a meter thread changes
MeterFrame == UNCHANGED <<running, slew_rate, reset_on_stop, default_volumes, workers,
                          src_running, ramp, bridge_vars, sp, halt, slew_lock, state_lock,
                          tv_now, events, attached, sink, tv_state>>

FreeMeters == {m \in MeterSlots : meters.threads[m].pc = "none"}

\* tv.py 312-325: a PCM pipeline start spawns a tv-level-meter thread
spawn_meter(ms, kind) ==
    IF kind = "pcm"
    THEN LET m == CHOOSE x \in FreeMeters : \A y \in FreeMeters : x <= y
         IN  [ms EXCEPT !.threads[m] = [pc |-> "check", from |-> 0]]
    ELSE ms

\* tv.py 246-251 with 253-327: the probe returns and picks the kind of the
\* pipeline; ok says that the tools are there and Popen succeeds
MeterLaunch(kind, ok) ==
    /\ loop.pc = "probe"
    /\ (ok /\ kind = "pcm") => FreeMeters # {}
    /\ tv' = IF ok THEN [tv EXCEPT !.proc = "running", !.type = kind,
                                   !.meter = (kind = "pcm")]
             ELSE tv
    /\ meters' = IF ok THEN spawn_meter([meters EXCEPT !.gen = @ + 1], kind) ELSE meters
    /\ loop' = [loop EXCEPT !.pc = "poll", !.cause = IF ok THEN @ ELSE "failed"]
    /\ pub' = <<>> /\ writes' = <<>>
    /\ last' = [NoLast EXCEPT !.op = "launch", !.src = "tv", !.note = kind, !.ret = ok]
    /\ TvQuiet /\ MeterFrame

\* tv.py 347-348 and 353: the thread's entry test and the head of its loop;
\* it goes on to read the stdout of the pipeline object that
\* self._pipeline_proc names now
MeterLoopCheck(m) ==
    /\ meters.threads[m].pc = "check"
    /\ meters' = [meters EXCEPT !.threads[m] =
                     IF ~src_running["tv"] \/ tv.proc = "none" THEN NoMeter
                     ELSE [pc |-> "read", from |-> meters.gen]]
    /\ pub' = <<>> /\ writes' = <<>>
    /\ last' = [NoLast EXCEPT !.op = "meter_check", !.src = "tv"]
    /\ TvQuiet /\ MeterFrame
    /\ UNCHANGED <<tv, loop>>

\* the pipeline a thread reads from is the running one
Attached(m) ==
    /\ meters.threads[m].pc = "read"
    /\ meters.threads[m].from = meters.gen
    /\ tv.proc = "running"

\* tv.py 355-367: the read returns.  From a pipeline that is gone it returns
\* no data and the thread ends; from a running PCM pipeline it returns one
\* window whose level is l (a bitstream pipeline writes nothing to its stdout)
MeterLoopRead(m, l) ==
    /\ meters.threads[m].pc = "read"
    /\ IF Attached(m)
       THEN /\ tv.type = "pcm"
            /\ tv' = [tv EXCEPT !.level_db = l,
                                !.last_sound = IF l > tv.threshold THEN tv_now ELSE @]
            /\ meters' = [meters EXCEPT !.threads[m].pc = "check"]
       ELSE /\ meters' = [meters EXCEPT !.threads[m] = NoMeter]
            /\ UNCHANGED tv
    /\ pub' = <<>> /\ writes' = <<>>
    /\ last' = [NoLast EXCEPT !.op = "meter_read", !.src = "tv"]
    /\ TvQuiet /\ MeterFrame
    /\ UNCHANGED loop

MeterNext ==
    \/ PipelineTick
    \/ \E on \in BOOLEAN : TvSetPower(on)
    \/ PipelineExit
    \/ LoopTop
    \/ LoopStamp
    \/ \E kind \in {"pcm", "bitstream"}, ok \in BOOLEAN : MeterLaunch(kind, ok)
    \/ \E found \in BOOLEAN, info \in BOOLEAN, ok \in BOOLEAN :
          LoopPoll(found, info, ok, FALSE)
    \/ \E m \in MeterSlots : MeterLoopCheck(m)
    \/ \E m \in MeterSlots, l \in LevelInputs : MeterLoopRead(m, l)

SpecMeter == MeterInit /\ [][MeterNext]_vars
\* ------------------------------------------------------------- SpecOrder
\* The started mixer with both locks followed: AudioMixer._slew_lock as in
\* SpecLock, and the reentrant AudioSource._lock of the attached source, which
\* _update_state holds while it notifies the mixer.
OrderInit == BridgeInit

OrderFrame == UNCHANGED <<ramp, tv_vars, bridge_vars, sp, loop, halt, meters, slew_lock,
                          running, slew_rate, reset_on_stop, default_volumes, workers,
                          src_running, attached>>

\* base.py 109-111: the polling loop of s calls _update_state(state=st,
\* volume=v) and takes the lock of the source
PollEnter(s, st, v) ==
    /\ Env
    /\ src_running[s]
    /\ state_lock = NoHolder
    /\ state_lock' = <<"poll", st, v>>
    /\ pub' = <<>> /\ calls' = <<>>
    /\ last' = [NoLast EXCEPT !.op = "poll_enter", !.src = s]
    /\ UNCHANGED <<src_volume, src_state, was_active, slew_state>>
    /\ OrderFrame

\* mixer.py 125-127: the notification of the pending _update_state call makes
\* a became-inactive edge, so the handler calls stop_slew and asks for the
\* slew lock
poll_needs_slew_lock(s) ==
    /\ state_lock # NoHolder
    /\ src_state[s] # state_lock[2]
    /\ state_lock[2] # "playing" /\ was_active[s]

\* base.py 112-122: the body of _update_state under the lock of the source,
\* with the handlers of the mixer it calls, and the release of the lock
PollHandle(s, ok) ==
    /\ state_lock # NoHolder
    /\ poll_needs_slew_lock(s) => slew_lock = NoHolder
    /\ LET st == state_lock[2]
           c == update_state(Cell(s), s, st, state_lock[3], default_volumes[s],
                             reset_on_stop, ok)
       IN  /\ Commit(s, c)
           /\ last' = [NoLast EXCEPT !.op = "poll", !.src = s,
                          !.note = IF src_state[s] # st THEN st ELSE "",
                          !.edge = IF src_state[s] = st THEN ""
                                   ELSE IF st = "playing" /\ ~was_active[s] THEN "active"
                                   ELSE IF st # "playing" /\ was_active[s] THEN "inactive"
                                   ELSE "none"]
    /\ state_lock' = NoHolder
    /\ UNCHANGED events
    /\ OrderFrame

\* mixer.py 310 with base.py 111: a set_volume that stores the volume takes
\* the lock of the source in _update_state
OrderedApply(s, w, ok) ==
    /\ (s = "airplay" \/ ok) => state_lock = NoHolder
    /\ SlewApply(s, w, ok)

\* mixer.py 229-234: a direct command takes the lock of the source in
\* _update_state, a ramping one the slew lock in _start_slew
OrderedSetSourceVolume(name, v, use_slew, ok) ==
    /\ (~(use_slew /\ slew_rate > 0) /\ (name = "airplay" \/ ok)) => state_lock = NoHolder
    /\ LockedSetSourceVolume(name, v, use_slew, ok)

OrderNext ==
    \/ \E name \in attached, v \in VolumeInputs, use_slew \in BOOLEAN, ok \in BOOLEAN :
          OrderedSetSourceVolume(name, v, use_slew, ok)
    \/ \E s \in attached, v \in PolledVolumes : LockedExternalVolume(s, v)
    \/ \E s \in attached : \E st \in PollStates(s), v \in PollVolumes(s) : PollEnter(s, st, v)
    \/ \E s \in attached, ok \in BOOLEAN : PollHandle(s, ok)
    \/ \E s \in attached, w \in Slots : SlewAcquire(s, w)
    \/ \E s \in attached, w \in Slots : SlewLocked(s, w)
    \/ \E s \in attached, w \in Slots, ok \in BOOLEAN : OrderedApply(s, w, ok)
    \/ \E s \in attached, w \in Slots : LockedSlewCheck(s, w)

SpecOrder == OrderInit /\ [][OrderNext]_vars

\* ================================================================ properties
\* workers of source s that have left the locked section of a tick and are
\* applying or checking the volume they computed
MidTick(s) == {w \in Slots : workers[s][w].pc \in {"apply", "check"}}

\* C1: at most one ramp worker of a source is ramping at any time, under any
\* interleaving of set_source_volume, ticks, cancellation and mixer stop/start:
\* no two workers of one source are ever both in the middle of a tick.
C1_OneRampWorkerPerSource ==
    \A s \in Sources : Cardinality(MidTick(s)) <= 1

\* C2: when _handle_external_volume(s, v) has returned, the slew table holds
\* no entry for s.
C2_ExternalVolumeRemovesEntry ==
    last.op = "external_volume" => ~slew_state[last.src].present

\* C3 as stated: after a set_source_volume(s, v) that did not ramp, the
\* reported volume of s is clamp(0, 100, v).
C3_DirectSetReportsClampedVolume ==
    (last.op = "set_source_volume" /\ last.note = "direct" /\ last.src \in Sources)
        => src_volume[last.src] = Clamp(last.arg)

\* C3 amended: after a set_source_volume(s, v) that did not ramp, the reported
\* volume of s is clamp(0, 100, v) if the call returned success, and is what it
\* was before the call if it returned failure.
C3_DirectSetReportsClampedVolumeOnSuccess ==
    [][(last'.op = "set_source_volume" /\ last'.note = "direct"
            /\ last'.src \in Sources)
        => IF last'.ret
           THEN src_volume'[last'.src] = Clamp(last'.arg)
           ELSE src_volume'[last'.src] = src_volume[last'.src]]_vars

\* the notification (s, "state", st) is forwarded right after (s, "volume", d)
PublishedBeforeState(p, s, d, st) ==
    \E i \in 1 .. Len(p) - 1 :
        p[i] = Event(s, "volume", d) /\ p[i + 1] = Event(s, "state", st)

\* C4: the default-volume policy is edge-triggered.  A poll that notifies no
\* state, or a state whose activity equals wasActive, makes no set_volume call,
\* leaves the ramp job as it is and publishes no volume ahead of the state; no
\* poll makes more than one set_volume call.
C4_EdgeTriggered ==
    [][last'.op = "poll" =>
        LET s == last'.src
            is_active == last'.note = "playing"
        IN  /\ Len(calls') <= 1
            /\ (last'.note = "" \/ is_active = was_active[s]) =>
                    /\ calls' = <<>>
                    /\ slew_state'[s] = slew_state[s]
                    /\ workers' = workers
                    /\ last'.note # "" => pub'[1] = Event(s, "state", last'.note)
                    /\ last'.note = "" =>
                           \A i \in 1 .. Len(pub') :
                               pub'[i] = Event(s, "volume", src_volume'[s])]_vars

C4_Witness ==
    /\ last.op = "poll" /\ last.edge = "none" /\ last.note = "paused"
    /\ slew_state[last.src].active
    /\ calls = <<>>

\* C5: on a became-active edge of s the mixer calls s.set_volume with
\* defaultVolumes[s] directly (one call, no ramp job or worker is created or
\* changed) and publishes (s, volume, defaultVolumes[s]) ahead of the state.
C5_BecameActiveAppliesDefault ==
    [][(last'.op = "poll" /\ last'.note = "playing" /\ ~was_active[last'.src]) =>
        LET s == last'.src
            d == default_volumes[s]
        IN  /\ calls' = << <<s, d>> >>
            /\ slew_state'[s] = slew_state[s]
            /\ workers' = workers
            /\ PublishedBeforeState(pub', s, d, "playing")]_vars

C5_Witness ==
    /\ last.op = "poll" /\ last.edge = "active"
    /\ default_volumes[last.src] # DefaultVolume
    /\ calls = << <<last.src, default_volumes[last.src]>> >>

\* C6: on a became-inactive edge of s the mixer cancels the ramp job of s (the
\* job, if any, is no longer active); with resetOnStop it calls s.set_volume
\* with defaultVolumes[s] and publishes it ahead of the state, without
\* resetOnStop it makes no set_volume call and publishes no volume of its own.
C6_BecameInactiveCancelsAndResets ==
    [][(last'.op = "poll" /\ last'.note \notin {"", "playing"}
            /\ was_active[last'.src]) =>
        LET s == last'.src
            d == default_volumes[s]
        IN  /\ ~slew_state'[s].active
            /\ slew_state'[s].present = slew_state[s].present
            /\ IF reset_on_stop
               THEN /\ calls' = << <<s, d>> >>
                    /\ PublishedBeforeState(pub', s, d, last'.note)
               ELSE /\ calls' = <<>>
                    /\ pub'[1] = Event(s, "state", last'.note)]_vars

C6_Witness ==
    /\ last.op = "poll" /\ last.edge = "inactive"
    /\ slew_state[last.src].present /\ ~slew_state[last.src].active
    /\ calls = << <<last.src, default_volumes[last.src]>> >>

\* the ramps in progress: a worker of s and the job it serves
Ramping == {sw \in Sources \X Slots :
               workers[sw[1]][sw[2]].pc # "none" /\ slew_state[sw[1]].present}

\* the position of a ramp from c to t after k ticks of size step
RampPosition(c, t, step, k) ==
    IF c <= t THEN Min(t * FP, c * FP + k * step) ELSE Max(t * FP, c * FP - k * step)

\* the k-th applied volume is the rounded position after k ticks, so the
\* position advances by rate * tickInterval per tick and stops at t
RampAdvances(me, t) ==
    \A k \in 1 .. Len(ramp.log) :
        ramp.log[k] = RoundFP(RampPosition(ramp.from, t, me.step, k))

\* no applied volume lies beyond t
RampNeverPasses(t) ==
    \A k \in 1 .. Len(ramp.log) :
        IF ramp.from <= t THEN ramp.log[k] <= t ELSE ramp.log[k] >= t

\* the worker is about to terminate only when it has just applied t
RampEndsAt(me, t) ==
    (me.pc = "check" /\ reached(me.new_vol, me.target)) => ramp.log[Len(ramp.log)] = t

RampStrictlyMonotonic(t) ==
    \A k \in 1 .. Len(ramp.log) - 1 :
        IF ramp.from <= t THEN ramp.log[k] < ramp.log[k + 1]
        ELSE ramp.log[k] > ramp.log[k + 1]

RampMonotonic(t) ==
    \A k \in 1 .. Len(ramp.log) - 1 :
        IF ramp.from <= t THEN ramp.log[k] <= ramp.log[k + 1]
        ELSE ramp.log[k] >= ramp.log[k + 1]

\* C7 as stated: in a ramp from c to t left alone, the applied and published
\* volumes are strictly monotonic toward t, never pass t, advance by
\* rate * tickInterval per tick, and the last one is exactly t.
C7_RampStrictlyMonotonic ==
    \A sw \in Ramping :
        LET me == workers[sw[1]][sw[2]]
            t == slew_state[sw[1]].target
        IN  /\ RampStrictlyMonotonic(t)
            /\ RampNeverPasses(t)
            /\ RampAdvances(me, t)
            /\ RampEndsAt(me, t)

\* C7 amended: the applied and published volumes never move away from t (a
\* value may repeat: each is the ramp position rounded to an integer, halves
\* to the even one), never pass t, are the rounded positions of a ramp that
\* advances by rate * tickInterval per tick, and the last one is exactly t.
C7_RampMonotonic ==
    \A sw \in Ramping :
        LET me == workers[sw[1]][sw[2]]
            t == slew_state[sw[1]].target
        IN  /\ RampMonotonic(t)
            /\ RampNeverPasses(t)
            /\ RampAdvances(me, t)
            /\ RampEndsAt(me, t)

C7_Witness ==
    \E sw \in Ramping :
        LET me == workers[sw[1]][sw[2]] IN
        /\ me.pc = "check" /\ reached(me.new_vol, me.target)
        /\ me.step = DefaultSlewRate
        /\ Len(ramp.log) >= 5
        /\ ramp.log[Len(ramp.log)] = slew_state[sw[1]].target

\* the PCM pipeline is running and its sink-input exists
PcmStreaming == tv.proc = "running" /\ tv.type = "pcm" /\ sink.present
\* the metered level is at or below the threshold
Silent == tv.level_db <= tv.threshold
\* the time since the meter last read a window above the threshold
SinceSound == tv_now - tv.last_sound
\* this step is a poll that found the sink-input and read its volume and mute
PollRead == last'.op = "tv_poll" /\ last'.note \notin {"nosink", "noinfo"}

\* C8: while the PCM pipeline streams, the level is at or below the threshold
\* and the last window above it is less than silenceDuration old, a poll that
\* reads the stream reports Playing and writes no mute; no step sets
\* silenceMuted, and the reported state becomes Idle only if the TV is switched
\* off or the poll does not find the stream.
C8_BriefSilenceStaysPlaying ==
    [][(PcmStreaming /\ Silent /\ SinceSound < tv.duration) =>
        /\ tv'.silence_muted => tv.silence_muted
        /\ PollRead => /\ src_state'["tv"] = "playing"
                       /\ writes' = <<>>
                       /\ sink'.muted = sink.muted
        /\ (src_state'["tv"] = "idle" /\ src_state["tv"] # "idle") =>
               (last'.op = "set_tv_power" \/ last'.note = "nosink")]_vars

C8_Witness ==
    /\ last.op = "tv_poll" /\ last.note = "dip"
    /\ PcmStreaming
    /\ tv.last_sound > 0 /\ tv_now > tv.last_sound
    /\ src_state["tv"] = "playing"
    /\ tv.auto_mute /\ ~tv.user_muted /\ ~tv.silence_muted /\ ~sink.muted

\* C9: while the PCM pipeline streams, the level is at or below the threshold
\* and the last window above it is at least silenceDuration old, a poll that
\* reads the stream reports Idle; if auto-mute is enabled, the user has not
\* muted and silenceMuted is not set it writes mute once and sets silenceMuted,
\* otherwise it writes nothing and leaves silenceMuted.  No other step clears
\* silenceMuted before sound returns than set_auto_mute, so the later polls of
\* the episode write nothing.
C9_SustainedSilenceIdlesAndMutesOnce ==
    [][/\ (PcmStreaming /\ Silent /\ SinceSound >= tv.duration /\ PollRead) =>
            /\ src_state'["tv"] = "idle"
            /\ IF tv.auto_mute /\ ~tv.user_muted /\ ~tv.silence_muted
               THEN writes' = <<TRUE>> /\ tv'.silence_muted
               ELSE writes' = <<>> /\ tv'.silence_muted = tv.silence_muted
       /\ (tv.silence_muted /\ ~tv'.silence_muted) =>
            \/ last'.op = "set_auto_mute"
            \/ last'.op = "tv_poll" /\ last'.note = "sound"]_vars

C9_Witness ==
    /\ last.op = "tv_poll" /\ last.note = "silence"
    /\ PcmStreaming
    /\ tv.last_sound > 0
    /\ src_state["tv"] = "idle"
    /\ writes = <<TRUE>> /\ tv.silence_muted /\ sink.muted

\* C10: when a poll reads the stream and the level is above the threshold, then
\* if silenceMuted is set the poll writes the user's mute value to the output
\* and clears silenceMuted, and if it is not set the poll writes no mute.
C10_RecoveryRestoresUserMute ==
    [][(PcmStreaming /\ ~Silent /\ PollRead) =>
        IF tv.silence_muted
        THEN writes' = <<tv.user_muted>> /\ ~tv'.silence_muted
        ELSE writes' = <<>> /\ ~tv'.silence_muted]_vars

C3_Witness ==
    /\ last.op = "set_source_volume" /\ last.note = "direct"
    /\ last.ret /\ last.arg > MaxVolume
    /\ src_volume[last.src] = MaxVolume /\ calls # <<>>

\* C11: after set_master_volume(v), get_master_volume() returns 0 for v < 0,
\* 100 for v > 100 and v itself for v in 0..100, whether or not the write to
\* the default sink succeeded; and no other step changes what it returns.
C11_MasterVolumeRoundTrip ==
    [][/\ last'.op = "set_master_volume" =>
            get_master_volume' = IF last'.arg < 0 THEN 0
                                 ELSE IF last'.arg > 100 THEN 100 ELSE last'.arg
       /\ get_master_volume' # get_master_volume => last'.op = "set_master_volume"
      ]_vars

C11_Witness ==
    /\ last.op = "set_master_volume" /\ last.arg = -1 /\ ~last.ret
    /\ get_master_volume = 0

\* this step is a source_<n>_set_volume command
VolumeCommand(n) ==
    /\ last'.op \in {"rate_limited", "set_source_volume"}
    /\ last'.src = n
    /\ events' = events + 1

\* this step changes nothing in the mixer and its sources, calls no source and
\* publishes nothing
NoMixerEffect ==
    /\ UNCHANGED <<running, slew_rate, reset_on_stop, default_volumes, was_active,
                   slew_state, workers, src_volume, src_state, src_running,
                   master_volume, src_muted, tv_vars>>
    /\ pub' = <<>> /\ calls' = <<>>

\* C12 as stated: of two set_volume commands for one name that arrive less
\* than the cooldown apart, the second is dropped (at most the first is passed
\* to the mixer).
C12_SecondOfTwoDropped ==
    [][\A n \in Sources \cup {UnknownSource} :
        (VolumeCommand(n) /\ arrivals[n].at > 0
            /\ clock - arrivals[n].at < VolumeCmdCooldown) =>
        last'.op = "rate_limited"]_vars

\* C12 amended: a set_volume command for a name is dropped exactly when it
\* arrives less than the cooldown after the last command for that name that was
\* passed to the mixer (a dropped command does not restart the cooldown, and
\* the commands for other names do not count); a dropped command changes
\* nothing, calls nothing and leaves no ramp job or worker behind that could
\* apply it later; a passed one reaches set_source_volume.
C12_DroppedWithinCooldownOfLastApplied ==
    [][\A n \in Sources \cup {UnknownSource} :
        VolumeCommand(n) =>
          /\ last'.op = "rate_limited" <=>
                (arrivals[n].applied_at > 0
                    /\ clock - arrivals[n].applied_at < VolumeCmdCooldown)
          /\ last'.op = "rate_limited" => NoMixerEffect
          /\ \A m \in (Sources \cup {UnknownSource}) \ {n} :
                arrivals'[m] = arrivals[m] /\ last_volume_cmd'[m] = last_volume_cmd[m]
      ]_vars

C12_Witness ==
    /\ last.op = "rate_limited" /\ last.src \in Sources
    /\ arrivals[last.src].applied_at = clock - 1
    /\ arrivals[UnknownSource].applied_at = clock

\* C13: set_source_volume, set_source_mute, toggle_source_mute, source_play,
\* source_pause and source_stop with a name that is not a source of the mixer
\* return failure, and the step creates no slew job or worker, calls no source
\* method, publishes nothing and changes no state of the mixer or a source.
C13_UnknownSourceFailsWithoutEffect ==
    [][(/\ last'.op \in {"set_source_volume", "set_source_mute",
                         "toggle_source_mute", "source_play", "source_pause",
                         "source_stop"}
        /\ last'.src \notin Sources) =>
          /\ ~last'.ret
          /\ last'.note = ""
          /\ NoMixerEffect]_vars

C13_Witness ==
    /\ last.op = "toggle_source_mute" /\ last.src = UnknownSource /\ ~last.ret
    /\ arrivals[UnknownSource].applied_at > 0

\* the attributes only a source notifies (the mixer publishes volumes itself)
SourceKeys == {"state", "muted", "level", "level_db", "auto_mute",
               "silence_threshold", "silence_duration"}
\* entry i of seq is the last one it holds for the attribute of entry i
LastOfKey(seq, i) ==
    \A j \in DOMAIN seq : (seq[j][1] = seq[i][1] /\ seq[j][2] = seq[i][2]) => j <= i
\* entry i of seq is the first one it holds for the attribute of entry i
FirstOfKey(seq, i) ==
    \A j \in DOMAIN seq : (seq[j][1] = seq[i][1] /\ seq[j][2] = seq[i][2]) => j >= i

\* C14, for notifications that follow one another: when a step notifies an
\* attribute of a source and the step before it notified the same attribute,
\* the value now notified differs from the one notified last (also for the TV
\* settings notifications silence_threshold, silence_duration and auto_mute).
C14_NeverNotifiesLastValue ==
    [][\A i \in DOMAIN pub, j \in DOMAIN pub' :
        (/\ pub[i][1] \in Sources /\ pub[i][2] \in SourceKeys
         /\ pub'[j][1] = pub[i][1] /\ pub'[j][2] = pub[i][2]
         /\ LastOfKey(pub, i) /\ FirstOfKey(pub', j)) =>
        pub'[j][3] # pub[i][3]]_vars

\* C15: the polling loop invokes on_external_volume only with a volume that the
\* Spotify app wrote to the MPRIS property, never for a value that the
\* source's own set_volume wrote there.
C15_ExternalOnlyForAppChanges ==
    [][last'.op = "poll_external" => last'.note = "app"]_vars

C17_PipelineRunsOnlyWhenEnabled ==
    tv.proc = "running" => tv.enabled

\* C18: any two consecutive pipeline starts (entries of _start_pipeline, which
\* stamps lastPipelineStartTimestamp) are at least the restart cooldown apart.
C18_StartsCooldownApart ==
    loop.prev_start # 0 => loop.this_start - loop.prev_start >= RestartCooldown

\* a second start, made after the pipeline of the first one crashed
C18_Witness ==
    /\ loop.prev_start # 0
    /\ last.op = "start_pipeline" /\ last.note = "crash"

\* C19: a poll cycle that publishes within the debounce window of a successful
\* set_volume (set_muted) of the TV source, and during which the mixer makes no
\* set_volume of its own, leaves the reported volume (mute) as it is.
C19_PollKeepsJustWritten ==
    [][last'.op = "tv_poll" /\ calls' = <<>> =>
        /\ tv_now - tv.vol_set <= SetDebounce => src_volume'["tv"] = src_volume["tv"]
        /\ tv_now - tv.mute_set <= SetDebounce => tv_state'.muted = tv_state.muted]_vars

\* C20: within a stop() of the mixer, the step that marks the slew jobs
\* inactive empties the table and comes before the stop() of any source; no
\* source is stopped before it; and when stop() returns it has invoked stop()
\* on every source, in order, whether or not an earlier one raised.
C20_StopOrdering ==
    [][/\ (~halt.cleared /\ halt'.cleared) =>
              /\ halt.invoked = <<>>
              /\ \A s \in Sources : slew_state'[s] = NoJob
       /\ halt'.invoked # halt.invoked /\ halt'.invoked # <<>> => halt.cleared
       /\ (halt.pc = "sources" /\ halt'.pc = "idle") => halt'.invoked = SourceOrder
      ]_vars

\* a stop() that found a ramp job, whose first source raised, has returned
C20_Witness ==
    /\ halt.pc = "idle" /\ halt.cleared
    /\ halt.jobs # {}
    /\ "spotify" \in halt.raised
    /\ halt.invoked = SourceOrder
    /\ \A s \in Sources : ~src_running[s]

\* C21: in every reachable state the reported volume of every source is an
\* integer from 0 to 100.
C21_VolumeInRange ==
    \A s \in Sources : src_volume[s] \in MinVolume .. MaxVolume

\* C22: after a TV poll cycle that read the output stream and ran outside the
\* mute debounce window, the reported mute is (the mute the poll observed on
\* the stream, or userMuted, or silenceMuted).
C22_EffectiveMute ==
    [][/\ last'.op = "tv_poll" /\ last'.note \in {"sound", "dip", "silence"}
       /\ tv_now - tv.mute_set > SetDebounce
       => tv_state'.muted = (sink.muted \/ tv'.user_muted \/ tv'.silence_muted)]_vars

\* a poll outside the window reports muted only because of the silence mute
C22_Witness ==
    /\ last.op = "tv_poll" /\ last.note = "silence"
    /\ tv_now - tv.mute_set > SetDebounce
    /\ tv.silence_muted /\ ~tv.user_muted /\ ~sink.muted
    /\ tv_state.muted

\* C23: when the mixer's start() has applied the default volumes, the
\* reported volume of every source with a client equals its configured
\* default volume.
C23_StartAppliesDefaults ==
    [][last'.op = "start" =>
        \A s \in attached : src_volume'[s] = default_volumes[s]]_vars

\* C24: while the mixer runs, the slew table holds an entry for a source only
\* while a ramp worker of that source is running.
C24_EntryOnlyWhileWorkerRuns ==
    running => \A s \in Sources : slew_state[s].present => Alive(s) # {}

\* C25: a set_source_volume(s, t) with slewing that finds the ramp of s
\* cancelled, and s not at t, leaves an active ramp job for s with a worker
\* running.
C25_RampAfterCancel ==
    [][LET s == last'.src IN
       /\ last'.op = "set_source_volume" /\ last'.note = "slew"
       /\ slew_state[s].present /\ ~slew_state[s].active
       /\ src_volume[s] # Clamp(last'.arg)
       => /\ slew_state'[s].present /\ slew_state'[s].active
          /\ \E w \in Slots : workers'[s][w].pc # "none"]_vars

\* C26: a set_source_volume(s, t) with slewing that arrives while a ramp of s
\* is in flight makes t the target of the job, and a ramp that its worker ends
\* as complete has applied the target the job holds at that moment.
C26_TargetNeverLost ==
    [][LET s == last'.src IN
       /\ (/\ last'.op = "set_source_volume" /\ last'.note = "slew"
           /\ slew_state[s].present /\ slew_state[s].active)
          => slew_state'[s].target = Clamp(last'.arg)
       /\ (/\ last'.op = "slew_check"
           /\ slew_state[s].present /\ slew_state[s].active
           /\ ~slew_state'[s].present)
          => \E w \in Slots :
                /\ workers[s][w].pc = "check" /\ workers'[s][w].pc = "none"
                /\ RoundFP(workers[s][w].new_vol) = slew_state[s].target]_vars

\* C27: a ramp worker calls set_volume on s and publishes a volume for s only
\* while the ramp job of s is in the table and has not been cancelled.
C27_NoApplyAfterCancel ==
    [][last'.op = "slew_apply" =>
        slew_state[last'.src].present /\ slew_state[last'.src].active]_vars

\* C28: a ramp worker that is about to call set_volume and the state-change
\* callback does not hold the slew lock: each tick has left its locked
\* section before it applies the volume.
C28_ApplyOutsideLock ==
    \A s \in Sources, w \in Slots :
        workers[s][w].pc = "apply" => slew_lock # <<s, w>>

\* a worker has just left the locked section with a volume to apply
C28_Witness ==
    /\ last.op = "slew_tick"
    /\ \E w \in Slots : workers[last.src][w].pc = "apply"
    /\ slew_lock = NoHolder

\* C29: when a poll delivers an active or inactive edge of s and the mixer
\* publishes the default volume d of s for it, the reported volume of s is d
\* once the poll's _update_state call has returned.
C29_PublishedDefaultIsReported ==
    [][(/\ last'.op = "poll" /\ last'.edge \in {"active", "inactive"}
        /\ calls' = << <<last'.src, default_volumes[last'.src]>> >>) =>
            src_volume'[last'.src] = default_volumes[last'.src]]_vars

\* C30: when the mixer has handled a state notification (s, state, x),
\* wasActive[s] is (x = playing), so paused counts as inactive, and wasActive
\* of every other source is as before; a step that notifies only other
\* attributes (a poll without a state change, an external volume, a command,
\* a ramp tick) leaves wasActive as it was.
C30_WasActiveTracksPlaying ==
    [][/\ (last'.op = "poll" /\ last'.note # "") =>
              was_active' = [was_active EXCEPT ![last'.src] = (last'.note = "playing")]
       /\ (\/ last'.op = "poll" /\ last'.note = ""
           \/ last'.op \in {"external_volume", "set_source_volume", "slew_apply"}) =>
              was_active' = was_active]_vars

\* a playing source was notified as paused and is no longer counted active
C30_Witness ==
    /\ last.op = "poll" /\ last.note = "paused" /\ last.edge = "inactive"
    /\ ~was_active[last.src]

\* C31: once stop() of the TV source has returned, no decode pipeline of the
\* source is running.
C31_NoPipelineAfterStop ==
    halt.pc = "tv_stopped" => tv.proc # "running"

\* the cooldown after the last pipeline start ends within the run
CooldownEndsInRun == tv.last_start + RestartCooldown <= TvEpoch + MaxPipelineTime

\* C32: while the pipeline stays enabled and the source keeps running, a
\* decode pipeline that has exited is followed by a running pipeline again:
\* the control loop notices the exit in its own thread, waits for the cooldown
\* and starts a pipeline.
C32_CrashIsRecovered ==
    (tv.proc = "exited" /\ CooldownEndsInRun) ~> (tv.proc = "running")

\* the pipeline has been started again by the loop after it exited
C32_Witness ==
    /\ last.op = "launch" /\ loop.cause = "crash"
    /\ tv.proc = "running"
    /\ loop.prev_start # 0 /\ loop.this_start - loop.prev_start >= RestartCooldown

\* C33: a set_volume whose sink-input write fails (no sink-input, pactl exits
\* non-zero or times out) returns failure to the mixer, for every source.
C33_FailedWriteReturnsFailure ==
    [][\A s \in Sources, v \in VolumeInputs :
          SetSourceVolume(s, v, FALSE, FALSE) => ~last'.ret]_vars

\* C34: a Spotify source that found no D-Bus connection at start (the mixer
\* runs, the source does not) rejects control calls: a set_volume on it
\* returns failure.
C34_DisabledSourceRejectsControl ==
    [][\A v \in VolumeInputs, ok \in BOOLEAN :
          (/\ running /\ ~src_running["spotify"]
           /\ SetSourceVolume("spotify", v, FALSE, ok)) => ~last'.ret]_vars

\* C35: the metering threads that read from the running pipeline are at most
\* one, and there is none unless that pipeline is a PCM pipeline.
C35_OneMeterOnPcmPipeline ==
    LET reading == {m \in MeterSlots : Attached(m)}
    IN  /\ Cardinality(reading) <= 1
        /\ reading # {} => tv.type = "pcm"

\* the thread that holds the slew lock is a ramp worker that is about to call
\* set_volume, and so to ask for the lock of the source
SlewHolderWantsStateLock ==
    /\ slew_lock # NoHolder
    /\ workers[slew_lock[1]][slew_lock[2]].pc = "apply"

\* C36: the lock of a source is never requested by a thread that holds the
\* slew lock, so the polling thread, which asks for the slew lock while it
\* holds the lock of its source, is never in a circular wait with a ramp
\* worker.
C36_LockOrder ==
    /\ ~SlewHolderWantsStateLock
    /\ \A s \in attached :
          ~(poll_needs_slew_lock(s) /\ slew_lock # NoHolder /\ SlewHolderWantsStateLock)

\* the polling thread holds the lock of its source and waits for the slew
\* lock, which a ramp worker holds in its locked section
C36_Witness ==
    /\ \E s \in attached : poll_needs_slew_lock(s)
    /\ slew_lock # NoHolder
    /\ workers[slew_lock[1]][slew_lock[2]].pc = "locked"

\* C37: the TV source is silence-muted only while auto-mute is enabled.
C37_SilenceMutedOnlyWithAutoMute ==
    tv.silence_muted => tv.auto_mute

\* C38: after a TV poll cycle that read the output stream and ran outside the
\* mute debounce window, the reported mute is the mute of the output stream.
C38_ReportedMuteIsStreamMute ==
    [][/\ last'.op = "tv_poll" /\ last'.note \in {"sound", "dip", "silence"}
       /\ tv_now - tv.mute_set > SetDebounce
       => tv_state'.muted = sink'.muted]_vars

\* C39: a poll made while a bitstream pipeline is running does not engage the
\* silence auto-mute: it neither sets silenceMuted nor writes a mute to the
\* output stream.
C39_NoAutoMuteOnBitstream ==
    [][(last'.op = "tv_poll" /\ tv.proc = "running" /\ tv.type = "bitstream") =>
          /\ tv'.silence_muted => tv.silence_muted
          /\ \A i \in DOMAIN writes' : ~writes'[i]]_vars

\* C40: a volume that was applied to a source directly (by a command without
\* ramp or by the default of a became-active edge) and is the source's volume
\* is not changed by a ramp step that comes next: the ramp in flight does not
\* overwrite it.
C40_DirectVolumeSurvivesRamp ==
    [][(/\ \/ last.op = "set_source_volume" /\ last.note = "direct" /\ last.ret
           \/ last.op = "poll" /\ last.edge = "active"
        /\ calls # <<>>
        /\ last'.op = "slew_apply"
        /\ calls[Len(calls)][1] = last'.src
        /\ src_volume[last'.src] = Clamp(calls[Len(calls)][2])) =>
            src_volume'[last'.src] = src_volume[last'.src]]_vars

====
